---- MODULE Spec2Model ----
(***************************************************************************)
(* Verification model of margin's storage core (src-tauri/src):            *)
(*   db/migrations.rs      startup migrations and the one-time backfill    *)
(*   commands/corrections.rs  correction upsert / delete / export          *)
(*   commands/search.rs    full-text index, bulk reindex                   *)
(***************************************************************************)
EXTENDS Integers, Sequences, FiniteSets, Bags, TLC

VARIABLES
    corrections,      \* table corrections, as the connection sees it
    corrections_new,  \* table corrections_new (exists only inside the rebuild)
    saved,            \* the open transaction's rollback image of both tables
    documents,        \* table documents
    app,              \* position of the application process (init_db steps, then "up")
    logs,             \* ~/.margin/corrections/*.jsonl : file name -> sequence of lines
    dirExists,        \* whether ~/.margin/corrections exists
    clock,            \* SystemTime::now() in milliseconds
    hist,             \* history of the startups (observation only)
    bf,               \* the last direct call of backfill_corrections_from_dir (observation only)
    documents_fts,    \* the FTS5 table documents_fts: a bag of rows
    fsys,             \* the backing files of the documents: path -> file
    lock,             \* holder of the DbPool mutex
    runs,             \* the index_all_documents calls in progress
    obs               \* the search command that returned last (observation only)

corrVars == <<corrections, corrections_new, saved>>
dbVars == <<corrections, corrections_new, saved, app, logs, dirExists, hist, bf>>
ftsVars == <<documents_fts, fsys, lock, runs, obs>>

vars == <<corrections, corrections_new, saved, documents, app, logs, dirExists, clock, hist, bf,
          documents_fts, fsys, lock, runs, obs>>

-----------------------------------------------------------------------------
(* Bounds of the model *)

MaxLogLines == 3     \* lines in the log directory of the backfill specification
MaxClock == 2        \* clock ticks (one per persist_corrections call)
MaxStartups == 2     \* startups of one database
MaxAccess == 1       \* index_document calls per document
MaxTime == 1         \* clock ticks while the search commands run
MaxQueryParts == 3   \* parts a query is made of
MaxLimit == 1        \* the largest limit search_documents is called with

-----------------------------------------------------------------------------
(* Values *)

NULL == "NULL"
\* SQL NULL in an INTEGER column (indexed_at)
NoTime == -1
\* SQL NULL in the INTEGER column access_count
NoCount == -1
Marker == "__backfill_marker__"
Backfilled == "__backfilled__"
HighlightIds == {"h1", "h2"}
\* uuid::Uuid::new_v4(): names of generated ids
IdNames == <<"u1", "u2", "u3", "u4", "u5", "u6">>
\* session uuids, one per persist_corrections call (indexed by the time of the call)
SessionNames == <<"s1", "s2", "s3", "s4", "s5", "s6">>
\* log files, named corrections-<date>.jsonl; the number orders the names
FileNames == {1, 2}

Min(a, b) == IF a < b THEN a ELSE b

-----------------------------------------------------------------------------
(* Log lines.  A line is blank or not, parses as JSON or not, and when it   *)
(* parses, obj holds the keys that are present.                             *)

BlankLine == [blank |-> TRUE, json |-> FALSE, obj |-> [none |-> TRUE]]
GarbageLine == [blank |-> FALSE, json |-> FALSE, obj |-> [none |-> TRUE]]
NoHidLine == [blank |-> FALSE, json |-> TRUE, obj |-> [no_highlight_id |-> TRUE]]

JsonLine(o) == [blank |-> FALSE, json |-> TRUE, obj |-> o]

\* the lines of the migrations tests: an old and a new version of h1, a line
\* of h2, and a record that holds nothing but its highlight_id
FullLines ==
    { JsonLine([highlight_id |-> h, document_id |-> "d1", session_id |-> "s1",
                original_text |-> "old version", notes |-> "[old]",
                document_source |-> "file", highlight_color |-> "yellow",
                exported_at |-> 1]) : h \in HighlightIds }
    \cup
    { JsonLine([highlight_id |-> "h1", document_id |-> "d1", session_id |-> "s2",
                original_text |-> "new version", notes |-> "[new]",
                document_title |-> "Doc",
                document_source |-> "file", highlight_color |-> "green",
                exported_at |-> 2]),
      JsonLine([highlight_id |-> "h1"]) }

Lines == {BlankLine, GarbageLine, NoHidLine} \cup FullLines

\* val[key].as_str().unwrap_or(default), val[key].as_i64().unwrap_or(0), val[key].as_str()
JsonOr(o, key, default) == IF key \in DOMAIN o THEN o[key] ELSE default

\* serde_json::to_string(&val["notes"]): a missing key serialises as null
JsonNotes(o) == IF "notes" \in DOMAIN o THEN o["notes"] ELSE "null"

-----------------------------------------------------------------------------
(* Rows of the corrections table.  prefix_context, suffix_context and       *)
(* document_path are written exactly as extended_context is; category is    *)
(* always NULL.                                                             *)

FreshIndex(used) == CHOOSE i \in 1..Len(IdNames) :
                        /\ IdNames[i] \notin used
                        /\ \A j \in 1..(i - 1) : IdNames[j] \in used

\* Uuid::new_v4().to_string(): an id no row of the table has
FreshId(rows) == IdNames[FreshIndex({r.id : r \in rows})]

HasHighlight(rows, h) == \E r \in rows : r.highlight_id = h

\* the parameters backfill binds for one line (params! of the INSERT)
BackfillRow(o, id) ==
    [id |-> id,
     highlight_id |-> o["highlight_id"],
     document_id |-> JsonOr(o, "document_id", ""),
     session_id |-> JsonOr(o, "session_id", ""),
     original_text |-> JsonOr(o, "original_text", ""),
     extended_context |-> JsonOr(o, "extended_context", NULL),
     notes_json |-> JsonNotes(o),
     document_title |-> JsonOr(o, "document_title", NULL),
     document_source |-> JsonOr(o, "document_source", "unknown"),
     highlight_color |-> JsonOr(o, "highlight_color", "yellow"),
     created_at |-> JsonOr(o, "exported_at", 0),
     updated_at |-> JsonOr(o, "exported_at", 0),
     writing_type |-> NULL]

\* INSERT OR REPLACE instead of DO UPDATE: the old row is dropped
BackfillMergeReplace(old, new) == new

\* ON CONFLICT(highlight_id) DO UPDATE SET ... of backfill
BackfillMerge(old, new) ==
    [old EXCEPT !.original_text = new.original_text,
                !.notes_json = new.notes_json,
                !.document_title = new.document_title,
                !.highlight_color = new.highlight_color,
                !.updated_at = new.updated_at]

\* INSERT ... ON CONFLICT(highlight_id) DO UPDATE under UNIQUE(highlight_id)
BackfillUpsert(rows, new) ==
    IF HasHighlight(rows, new.highlight_id)
    THEN { IF r.highlight_id = new.highlight_id THEN BackfillMerge(r, new) ELSE r
           : r \in rows }
    ELSE rows \cup {new}

-----------------------------------------------------------------------------
(* backfill_corrections_from_dir *)

\* a line that reaches the INSERT: not blank, valid JSON, highlight_id is a string
Importable(line) ==
    /\ ~line.blank
    /\ line.json
    /\ "highlight_id" \in DOMAIN line.obj

\* paths.sort(): ascending by file name
RECURSIVE SortPaths(_)
SortPaths(s) ==
    IF s = {} THEN <<>>
    ELSE LET m == CHOOSE x \in s : \A y \in s : x <= y
         IN <<m>> \o SortPaths(s \ {m})

\* the paths left as read_dir returned them
PathOrderUnsorted(given) == given

\* the order in which the files are processed, from read_dir's listing
PathOrder(given) == SortPaths({given[i] : i \in 1..Len(given)})

\* a failed INSERT ends the run of the file
ImportLineStop(acc, f, i, line, env) ==
    IF ~Importable(line) THEN acc
    ELSE IF <<f, i>> \in env.failing \/ acc.stopped = f THEN [acc EXCEPT !.stopped = f]
    ELSE [acc EXCEPT !.rows = BackfillUpsert(acc.rows, BackfillRow(line.obj, FreshId(acc.rows))),
                     !.imported = acc.imported + 1]

\* one line of one file; env.failing are the positions whose INSERT returns Err
ImportLine(acc, f, i, line, env) ==
    IF ~Importable(line) THEN acc
    ELSE IF <<f, i>> \in env.failing THEN acc
    ELSE [acc EXCEPT !.rows = BackfillUpsert(acc.rows, BackfillRow(line.obj, FreshId(acc.rows))),
                     !.imported = acc.imported + 1]

RECURSIVE ImportLines(_, _, _, _, _)
ImportLines(acc, f, lines, i, env) ==
    IF i > Len(lines) THEN acc
    ELSE ImportLines(ImportLine(acc, f, i, lines[i], env), f, lines, i + 1, env)

RECURSIVE ImportFiles(_, _, _, _, _)
ImportFiles(acc, paths, k, files, env) ==
    IF k > Len(paths) THEN acc
    ELSE LET f == paths[k] IN
         IF f \in env.unreadable
         THEN ImportFiles(acc, paths, k + 1, files, env)
         ELSE ImportFiles(ImportLines(acc, f, files[f], 1, env), paths, k + 1, files, env)

\* the missing directory reported as an error
MissingDirError(rows) == [rows |-> rows, imported |-> 0, stopped |-> 0, error |-> TRUE]

\* the directory is missing: 0 imported
MissingDir(rows) == [rows |-> rows, imported |-> 0, stopped |-> 0, error |-> FALSE]

\* env: listing (read_dir's order), unreadable (files File::open fails on),
\* failing (positions whose INSERT fails)
BackfillFromDir(rows, exists, files, env) ==
    IF ~exists THEN MissingDir(rows)
    ELSE ImportFiles([rows |-> rows, imported |-> 0, stopped |-> 0, error |-> FALSE],
                     PathOrder(env.listing), 1, files, env)

\* what the environment may do to one run
Listings == { l \in [1..Cardinality(FileNames) -> FileNames] :
                \A i, j \in 1..Cardinality(FileNames) : i # j => l[i] # l[j] }

Positions(files) == { <<f, i>> : f \in FileNames, i \in 1..MaxLogLines }

\* at most one file that cannot be opened and at most one failing INSERT per run
Envs(files) ==
    { [listing |-> l, unreadable |-> u, failing |-> x] :
        l \in Listings,
        u \in {{}} \cup { {f} : f \in FileNames },
        x \in {{}} \cup { {p} : p \in { q \in Positions(files) :
                                          /\ q[2] <= Len(files[q[1]])
                                          /\ Importable(files[q[1]][q[2]]) } } }

-----------------------------------------------------------------------------
(* Tables *)

NoTable == [exists |-> FALSE, fks |-> FALSE, wt |-> FALSE, rows |-> {}]

\* CREATE TABLE corrections / corrections_new: sixteen columns, no foreign
\* keys, no writing_type
NewCorrectionsTable == [exists |-> TRUE, fks |-> FALSE, wt |-> FALSE, rows |-> {}]

\* CREATE TABLE IF NOT EXISTS corrections
CreateCorrectionsIfAbsent(t) == IF t.exists THEN t ELSE NewCorrectionsTable

NoDocuments == [exists |-> FALSE, ac |-> FALSE, ia |-> FALSE, rows |-> {}]

\* CREATE TABLE IF NOT EXISTS documents: no access_count, no indexed_at
CreateDocumentsIfAbsent(t) ==
    IF t.exists THEN t ELSE [exists |-> TRUE, ac |-> FALSE, ia |-> FALSE, rows |-> {}]

NoSnap == [active |-> FALSE, corrections |-> NoTable, corrections_new |-> NoTable]

\* the statements run outside a transaction: nothing to roll back to
BeginMissing(c, cn) == NoSnap

\* BEGIN: what a rollback restores
Begin(c, cn) == [active |-> TRUE, corrections |-> c, corrections_new |-> cn]

\* what the database file holds when the connection is dropped
Durable(view, image) == IF saved.active THEN image ELSE view

\* INSERT INTO corrections_new SELECT * FROM corrections
CopyAll(rows) == rows

\* PRAGMA foreign_key_list(corrections) returns a row
HasFks(t) == t.fks

\* the column test left out: the column is added on every startup
HasWritingTypeColumnUnchecked(t) == FALSE

\* PRAGMA table_info(corrections) lists writing_type
HasWritingTypeColumn(t) == t.wt

\* SELECT COUNT(*) > 0 FROM corrections WHERE session_id = '__backfilled__'
SentinelPresent(rows) == \E r \in rows : r.session_id = Backfilled

SentinelRow ==
    [id |-> Marker, highlight_id |-> Marker, document_id |-> "",
     session_id |-> Backfilled, original_text |-> "", extended_context |-> NULL,
     notes_json |-> "[]", document_title |-> NULL, document_source |-> "system",
     highlight_color |-> "none", created_at |-> 0, updated_at |-> 0,
     writing_type |-> NULL]

\* INSERT OR IGNORE: ignored when id or highlight_id is taken
InsertOrIgnore(rows, new) ==
    IF \E r \in rows : r.id = new.id \/ r.highlight_id = new.highlight_id
    THEN rows
    ELSE rows \cup {new}

\* the backfill half of migrate_corrections_drop_fks, for one environment
BackfillOnce(rows, exists, files, env) ==
    IF SentinelPresent(rows)
    THEN [rows |-> rows, ran |-> FALSE, imported |-> 0]
    ELSE LET res == BackfillFromDir(rows, exists, files, env) IN
         [rows |-> IF res.imported > 0 THEN InsertOrIgnore(res.rows, SentinelRow)
                   ELSE res.rows,
          ran |-> TRUE,
          imported |-> res.imported]

-----------------------------------------------------------------------------
(* init_db, step by step *)

StartupSteps == {"drop_fks", "create_new", "copy", "drop_old", "rename", "commit",
                 "backfill", "add_writing_type", "add_access_count", "add_indexed_at"}

\* the schema init_db leaves: nothing is left for the migrations to do
Migrated(c, d) == c.exists /\ ~c.fks /\ c.wt /\ d.exists /\ d.ac /\ d.ia

\* open the connection, CREATE TABLE IF NOT EXISTS ...
Start ==
    /\ app \in {"down", "error"}
    /\ hist.startups < MaxStartups
    /\ corrections' = CreateCorrectionsIfAbsent(corrections)
    /\ documents' = CreateDocumentsIfAbsent(documents)
    /\ app' = "drop_fks"
    /\ hist' = [hist EXCEPT !.startups = @ + 1, !.ran = FALSE, !.imported = 0,
                            !.rebuild = "none",
                            !.again = Migrated(corrections, documents)]
    /\ UNCHANGED <<corrections_new, saved, logs, dirExists, clock, bf, ftsVars>>

\* has_fks: PRAGMA foreign_keys=OFF; BEGIN
RebuildBegin ==
    /\ app = "drop_fks"
    /\ HasFks(corrections)
    /\ saved' = Begin(corrections, corrections_new)
    /\ app' = "create_new"
    /\ hist' = [hist EXCEPT !.rebuild = "running", !.original = corrections]
    /\ UNCHANGED <<corrections, corrections_new, documents, logs, dirExists, clock, bf, ftsVars>>

\* !has_fks
RebuildSkip ==
    /\ app = "drop_fks"
    /\ ~HasFks(corrections)
    /\ app' = "backfill"
    /\ UNCHANGED <<corrVars, documents, logs, dirExists, clock, hist, bf, ftsVars>>

\* CREATE TABLE corrections_new (...)
RebuildCreate ==
    /\ app = "create_new"
    /\ IF corrections_new.exists
       THEN /\ app' = "error"
            /\ corrections' = Durable(corrections, saved.corrections)
            /\ corrections_new' = Durable(corrections_new, saved.corrections_new)
            /\ saved' = NoSnap
            /\ hist' = [hist EXCEPT !.rebuild = "failed"]
       ELSE /\ app' = "copy"
            /\ corrections_new' = NewCorrectionsTable
            /\ UNCHANGED <<corrections, saved, hist>>
    /\ UNCHANGED <<documents, logs, dirExists, clock, bf, ftsVars>>

\* INSERT INTO corrections_new SELECT * FROM corrections
RebuildCopy ==
    /\ app = "copy"
    /\ IF corrections.wt # corrections_new.wt
       THEN /\ app' = "error"
            /\ corrections' = Durable(corrections, saved.corrections)
            /\ corrections_new' = Durable(corrections_new, saved.corrections_new)
            /\ saved' = NoSnap
            /\ hist' = [hist EXCEPT !.rebuild = "failed"]
       ELSE /\ app' = "drop_old"
            /\ corrections_new' = [corrections_new EXCEPT !.rows = CopyAll(corrections.rows)]
            /\ UNCHANGED <<corrections, saved, hist>>
    /\ UNCHANGED <<documents, logs, dirExists, clock, bf, ftsVars>>

\* DROP TABLE corrections
RebuildDrop ==
    /\ app = "drop_old"
    /\ corrections' = NoTable
    /\ app' = "rename"
    /\ UNCHANGED <<corrections_new, saved, documents, logs, dirExists, clock, hist, bf, ftsVars>>

\* ALTER TABLE corrections_new RENAME TO corrections; CREATE INDEX IF NOT EXISTS ...
RebuildRename ==
    /\ app = "rename"
    /\ corrections' = corrections_new
    /\ corrections_new' = NoTable
    /\ app' = "commit"
    /\ UNCHANGED <<saved, documents, logs, dirExists, clock, hist, bf, ftsVars>>

\* COMMIT; PRAGMA foreign_keys=ON
RebuildCommit ==
    /\ app = "commit"
    /\ saved' = NoSnap
    /\ app' = "backfill"
    /\ hist' = [hist EXCEPT !.rebuild = "done", !.applied.fks = @ + 1]
    /\ UNCHANGED <<corrections, corrections_new, documents, logs, dirExists, clock, bf, ftsVars>>

\* the sentinel check, backfill_corrections_from_dir and the sentinel INSERT
StartupBackfill ==
    /\ app = "backfill"
    /\ \E env \in Envs(logs) :
         LET res == BackfillOnce(corrections.rows, dirExists, logs, env) IN
         /\ corrections' = [corrections EXCEPT !.rows = res.rows]
         /\ hist' = [hist EXCEPT !.ran = res.ran,
                                 !.imported = res.imported,
                                 !.importRuns = Min(2, @ + (IF res.imported > 0 THEN 1 ELSE 0))]
    /\ app' = "add_writing_type"
    /\ UNCHANGED <<corrections_new, saved, documents, logs, dirExists, clock, bf, ftsVars>>

\* migrate_corrections_add_writing_type
AddWritingType ==
    /\ app = "add_writing_type"
    /\ IF HasWritingTypeColumn(corrections)
       THEN /\ app' = "add_access_count"
            /\ UNCHANGED corrections
            /\ hist' = [hist EXCEPT !.ran = FALSE, !.imported = 0]
       ELSE IF corrections.wt
       THEN \* ALTER TABLE ... ADD COLUMN: duplicate column name
            /\ app' = "error"
            /\ UNCHANGED corrections
            /\ hist' = [hist EXCEPT !.ran = FALSE, !.imported = 0]
       ELSE /\ app' = "add_access_count"
            /\ corrections' = [corrections EXCEPT !.wt = TRUE]
            /\ hist' = [hist EXCEPT !.applied.wt = @ + 1, !.ran = FALSE, !.imported = 0]
    /\ UNCHANGED <<corrections_new, saved, documents, logs, dirExists, clock, bf, ftsVars>>

\* migrate_documents_add_frecency_columns: access_count
AddAccessCount ==
    /\ app = "add_access_count"
    /\ IF documents.ac
       THEN UNCHANGED <<documents, hist>>
       ELSE /\ documents' = [documents EXCEPT !.ac = TRUE]
            /\ hist' = [hist EXCEPT !.applied.ac = @ + 1]
    /\ app' = "add_indexed_at"
    /\ UNCHANGED <<corrVars, logs, dirExists, clock, bf, ftsVars>>

\* migrate_documents_add_frecency_columns: indexed_at
AddIndexedAt ==
    /\ app = "add_indexed_at"
    /\ IF documents.ia
       THEN UNCHANGED <<documents, hist>>
       ELSE /\ documents' = [documents EXCEPT !.ia = TRUE]
            /\ hist' = [hist EXCEPT !.applied.ia = @ + 1]
    /\ app' = "up"
    /\ UNCHANGED <<corrVars, logs, dirExists, clock, bf, ftsVars>>

\* a statement of init_db fails on the disk, or the process is killed: the
\* connection is dropped and its open transaction rolled back
Abort ==
    /\ app \in StartupSteps
    /\ app' = "down"
    /\ corrections' = Durable(corrections, saved.corrections)
    /\ corrections_new' = Durable(corrections_new, saved.corrections_new)
    /\ saved' = NoSnap
    /\ hist' = [hist EXCEPT !.rebuild = IF @ = "running" THEN "failed" ELSE @,
                            !.ran = FALSE, !.imported = 0]
    /\ UNCHANGED <<documents, logs, dirExists, clock, bf, ftsVars>>

\* the application exits
Quit ==
    /\ app = "up"
    /\ app' = "down"
    /\ UNCHANGED <<corrVars, documents, logs, dirExists, clock, hist, bf, ftsVars>>

-----------------------------------------------------------------------------
(* Commands of commands/corrections.rs *)

\* highlight ids a command may be called with: the commands take any string
CommandHids == {"h1", Marker}

\* CorrectionInput values
Inputs ==
    { [highlight_id |-> "h1", original_text |-> "bad text", extended_context |-> NULL,
       notes |-> "[fix]", highlight_color |-> "yellow", writing_type |-> NULL],
      [highlight_id |-> "h1", original_text |-> "new text", extended_context |-> "ctx",
       notes |-> "[fix2]", highlight_color |-> "green", writing_type |-> "email"],
      [highlight_id |-> Marker, original_text |-> "bad text", extended_context |-> NULL,
       notes |-> "[fix]", highlight_color |-> "yellow", writing_type |-> NULL] }

\* the Vec<CorrectionInput> of one call
Batches == {<<>>} \cup { <<i>> : i \in Inputs }

\* the export_date of a call names the log file
PersistDates == {2}

\* the parameters persist_corrections binds for one input
PersistRow(input, id, session, now) ==
    [id |-> id,
     highlight_id |-> input.highlight_id,
     document_id |-> "d1",
     session_id |-> session,
     original_text |-> input.original_text,
     extended_context |-> input.extended_context,
     notes_json |-> input.notes,
     document_title |-> "Doc",
     document_source |-> "file",
     highlight_color |-> input.highlight_color,
     created_at |-> now,
     updated_at |-> now,
     writing_type |-> input.writing_type]

\* writing_type = excluded.writing_type, without COALESCE
CoalesceNew(a, b) == a

\* COALESCE(excluded.writing_type, corrections.writing_type)
Coalesce(a, b) == IF a # NULL THEN a ELSE b

\* ON CONFLICT(highlight_id) DO UPDATE SET ... of persist_corrections
PersistMerge(old, new) ==
    [old EXCEPT !.session_id = new.session_id,
                !.original_text = new.original_text,
                !.extended_context = new.extended_context,
                !.notes_json = new.notes_json,
                !.document_title = new.document_title,
                !.document_source = new.document_source,
                !.highlight_color = new.highlight_color,
                !.updated_at = new.updated_at,
                !.writing_type = Coalesce(new.writing_type, old.writing_type)]

PersistUpsert(rows, new) ==
    IF HasHighlight(rows, new.highlight_id)
    THEN { IF r.highlight_id = new.highlight_id THEN PersistMerge(r, new) ELSE r
           : r \in rows }
    ELSE rows \cup {new}

RECURSIVE PersistAll(_, _, _, _, _)
PersistAll(rows, batch, i, session, now) ==
    IF i > Len(batch) THEN rows
    ELSE PersistAll(PersistUpsert(rows, PersistRow(batch[i], FreshId(rows), session, now)),
                    batch, i + 1, session, now)

\* the JSONL record appended for one input
PersistLine(input, session, now) ==
    JsonLine([highlight_id |-> input.highlight_id,
              session_id |-> session,
              original_text |-> input.original_text,
              extended_context |-> input.extended_context,
              notes |-> input.notes,
              document_id |-> "d1",
              document_title |-> "Doc",
              document_source |-> "file",
              highlight_color |-> input.highlight_color,
              writing_type |-> input.writing_type,
              exported_at |-> now])

PersistLines(batch, session, now) ==
    [i \in 1..Len(batch) |-> PersistLine(batch[i], session, now)]

\* one call of persist_corrections; logOk: the directory and the JSONL file
\* could be opened
PersistCall(batch, date, logOk) ==
    /\ app = "up"
    /\ clock < MaxClock
    /\ LET now == clock + 1
           session == SessionNames[now]
       IN /\ clock' = now
          /\ corrections' = [corrections EXCEPT
                               !.rows = PersistAll(@, batch, 1, session, now)]
          /\ IF logOk
             THEN /\ dirExists' = TRUE
                  /\ logs' = [logs EXCEPT ![date] = @ \o PersistLines(batch, session, now)]
             ELSE UNCHANGED <<logs, dirExists>>
    /\ UNCHANGED <<corrections_new, saved, documents, app, hist, bf, ftsVars>>

\* persist_corrections
PersistCorrections ==
    \E batch \in Batches, date \in PersistDates, logOk \in BOOLEAN :
        PersistCall(batch, date, logOk)

\* delete_correction_by_highlight: Err(QueryReturnedNoRows) when nothing matched
DeleteCorrection ==
    /\ app = "up"
    /\ \E h \in CommandHids :
         corrections' = [corrections EXCEPT !.rows = { r \in @ : r.highlight_id # h }]
    /\ UNCHANGED <<corrections_new, saved, documents, app, logs, dirExists, clock, hist, bf, ftsVars>>

\* the rows build_corrections_export selects
Exported(rows) == { r \in rows : r.session_id # Backfilled }

\* ORDER BY created_at DESC LIMIT limit: the rows that can be among the first
\* limit rows (rows of equal created_at come in either order)
NewestRows(rows, limit) ==
    { r \in rows : Cardinality({ q \in rows : q.created_at > r.created_at }) < limit }

\* fetch_corrections: SELECT ... FROM corrections, no WHERE clause
FetchCorrections(rows, limit) == NewestRows(rows, limit)

\* count_corrections: SELECT COUNT(*) FROM corrections
CountCorrections(rows) == Cardinality(rows)

\* fetch_corrections_by_document: WHERE session_id != '__backfilled__'
FetchCorrectionsByDocument(rows, limit) ==
    NewestRows({ r \in rows : r.session_id # Backfilled }, limit)

\* get_all_corrections, get_corrections_by_document: limit.unwrap_or(..)
AllLimit == 200
ByDocumentLimit == 50

\* the step of export_and_clear_corrections that returns Err
ExportFails == {"none", "build", "mkdir", "write", "delete"}

\* the DELETE issued before the export is written
ExportAndClearCorrectionsEager(rows, fail) ==
    [rows |-> IF fail \in {"build", "delete"} THEN rows
              ELSE { r \in rows : r.session_id = Backfilled },
     ok |-> fail = "none",
     count |-> IF fail = "none" THEN Cardinality(Exported(rows)) ELSE 0,
     exported |-> IF fail = "none" THEN Exported(rows) ELSE {}]

\* export_and_clear_corrections: the rows left in the table, the result, and
\* the rows in the export file when one was written
ExportAndClearCorrections(rows, fail) ==
    [rows |-> IF fail = "none" THEN { r \in rows : r.session_id = Backfilled } ELSE rows,
     ok |-> fail = "none",
     count |-> IF fail = "none" THEN Cardinality(Exported(rows)) ELSE 0,
     exported |-> IF fail \in {"none", "delete"} THEN Exported(rows) ELSE {}]

\* export_corrections_json, without what the caller sees of it
ExportCall(fail) ==
    /\ app = "up"
    /\ corrections' = [corrections EXCEPT
                         !.rows = ExportAndClearCorrections(@, fail).rows]
    /\ UNCHANGED <<corrections_new, saved, documents, app, logs, dirExists, clock, hist, bf,
                   documents_fts, fsys, lock, runs>>

ExportAndClear == \E fail \in ExportFails : ExportCall(fail) /\ UNCHANGED obs

-----------------------------------------------------------------------------
(* commands/search.rs: the full-text index *)

DocOrder == <<"d1", "d2">>
Paths == {"/a.md", "/b.md"}
\* the file the editor saves and the file that gets deleted
EditedPaths == {"/a.md"}
DeletedPaths == {"/b.md"}
Contents == {"old cat", "not cats"}
Titles == {"Doc"}
RunIds == {"r1"}
\* the document ids the commands are called with
IndexIds == {"d1"}
RemoveIds == {"d1", "d2"}

\* the unicode61 tokens of a text in their order, lower-cased, each a sequence
\* of characters
TokensOf(text) ==
    CASE text = "old cat" -> << <<"o", "l", "d">>, <<"c", "a", "t">> >>
      [] text = "not cats" -> << <<"n", "o", "t">>, <<"c", "a", "t", "s">> >>
      [] text = "Doc" -> << <<"d", "o", "c">> >>
      [] text = "Untitled" -> << <<"u", "n", "t", "i", "t", "l", "e", "d">> >>
      [] text = "a" -> << <<"a">> >>
      [] text = "b" -> << <<"b">> >>
      [] OTHER -> <<>>

TermsOf(text) == { TokensOf(text)[k] : k \in 1..Len(TokensOf(text)) }

\* one-word queries: every token of every text, and a word that is no token
Terms == UNION { TermsOf(t) : t \in Contents \cup Titles \cup {"Untitled"} }
            \cup {<<"c", "a">>, <<"d", "o", "g">>}

\* the words sanitize_fts_query drops: AND, OR, NOT, NEAR in any case
OperatorWords == {<<"a", "n", "d">>, <<"o", "r">>, <<"n", "o", "t">>, <<"n", "e", "a", "r">>}

\* characters: a query is a sequence of one-character strings
LowerLetters == <<"a", "b", "c", "d", "e", "f", "g", "h", "i", "j", "k", "l", "m",
                  "n", "o", "p", "q", "r", "s", "t", "u", "v", "w", "x", "y", "z">>
UpperLetters == <<"A", "B", "C", "D", "E", "F", "G", "H", "I", "J", "K", "L", "M",
                  "N", "O", "P", "Q", "R", "S", "T", "U", "V", "W", "X", "Y", "Z">>
Digits == {"0", "1", "2", "3", "4", "5", "6", "7", "8", "9"}
Whitespace == {" ", "\t", "\n"}
LetterIndex(letters, c) == CHOOSE k \in 1..Len(letters) : letters[k] = c
IsLower(c) == \E k \in 1..Len(LowerLetters) : LowerLetters[k] = c
IsUpper(c) == \E k \in 1..Len(UpperLetters) : UpperLetters[k] = c

\* char::to_uppercase, and the case folding of the tokenizer
ToUpper(c) == IF IsLower(c) THEN UpperLetters[LetterIndex(LowerLetters, c)] ELSE c
ToLower(c) == IF IsUpper(c) THEN LowerLetters[LetterIndex(UpperLetters, c)] ELSE c

\* char::is_alphanumeric
IsAlphanumeric(c) == IsLower(c) \/ IsUpper(c) \/ c \in Digits

MapChars(Op(_), word) == [k \in 1..Len(word) |-> Op(word[k])]

\* str::trim
RECURSIVE TrimStart(_)
TrimStart(q) == IF q # <<>> /\ Head(q) \in Whitespace THEN TrimStart(Tail(q)) ELSE q

RECURSIVE TrimEnd(_)
TrimEnd(q) ==
    IF q # <<>> /\ q[Len(q)] \in Whitespace THEN TrimEnd(SubSeq(q, 1, Len(q) - 1)) ELSE q

Trim(q) == TrimEnd(TrimStart(q))

\* the non-empty pieces of q between the characters of seps
RECURSIVE SplitOn(_, _)
SplitOn(q, seps) ==
    IF q = <<>> THEN <<>>
    ELSE IF Head(q) \in seps THEN SplitOn(Tail(q), seps)
    ELSE LET n == CHOOSE k \in 1..Len(q) :
                     /\ \A j \in 1..k : q[j] \notin seps
                     /\ k = Len(q) \/ q[k + 1] \in seps
         IN <<SubSeq(q, 1, n)>> \o SplitOn(SubSeq(q, n + 1, Len(q)), seps)

\* str::split_whitespace
SplitWhitespace(q) == SplitOn(q, Whitespace)

\* the chain of replace(.., "")
SpecialChars == {"\"", "'", "(", ")", "{", "}", ":", "^"}
\* the chain with one more replace, of the '*'
RemoveSpecialAndStar(q) == SelectSeq(q, LAMBDA c : c \notin SpecialChars \cup {"*"})

RemoveSpecial(q) == SelectSeq(q, LAMBDA c : c \notin SpecialChars)

OperatorNames == {<<"A", "N", "D">>, <<"O", "R">>, <<"N", "O", "T">>, <<"N", "E", "A", "R">>}

\* the comparison without to_uppercase
IsOperatorExact(word) == word \in OperatorNames

\* upper == "AND" || upper == "OR" || upper == "NOT" || upper == "NEAR"
IsOperator(word) == MapChars(ToUpper, word) \in OperatorNames

\* word.chars().any(|c| c.is_alphanumeric())
HasAlphanumeric(word) == \E k \in 1..Len(word) : IsAlphanumeric(word[k])

\* the word quoted as it is, without the filter on its characters
FormatWordRaw(word) == <<"\"">> \o word \o <<"\"", "*">>

\* the map closure: keep alphanumerics, '-' and '_', then format!("\"{}\"*")
FormatWord(word) ==
    LET cleaned == SelectSeq(word, LAMBDA c : IsAlphanumeric(c) \/ c = "-" \/ c = "_")
    IN IF cleaned = <<>> THEN <<>> ELSE <<"\"">> \o cleaned \o <<"\"", "*">>

\* terms.join(" ")
RECURSIVE JoinSpace(_)
JoinSpace(terms) ==
    IF terms = <<>> THEN <<>>
    ELSE IF Len(terms) = 1 THEN terms[1]
    ELSE terms[1] \o <<" ">> \o JoinSpace(Tail(terms))

\* sanitize_fts_query
SanitizeFtsQuery(query) ==
    LET trimmed == Trim(query)
    IN IF trimmed = <<>> THEN <<>>
       ELSE LET words == SplitWhitespace(RemoveSpecial(trimmed))
                kept == SelectSeq(SelectSeq(words, LAMBDA w : ~IsOperator(w)), HasAlphanumeric)
                terms == SelectSeq([k \in 1..Len(kept) |-> FormatWord(kept[k])],
                                   LAMBDA t : t # <<>>)
            IN JoinSpace(terms)

\* the FTS5 parser on an expression of sanitize_fts_query: the strings between
\* the quotes, each a phrase whose last token is a prefix
ExprPhrases(expr) ==
    LET parts == SplitOn(expr, {" "})
    IN [k \in 1..Len(parts) |-> SubSeq(parts[k], 2, Len(parts[k]) - 2)]

\* the unicode61 tokens of a phrase: runs of alphanumerics, lower-cased
PhraseTokens(phrase) ==
    LET pieces == SplitOn(phrase, {"-", "_"})
    IN [k \in 1..Len(pieces) |-> MapChars(ToLower, pieces[k])]

\* sanitize_fts_query on a one-word query: the word of the expression, or nothing
SanitizeTerm(term) ==
    IF SanitizeFtsQuery(term) = <<>> THEN <<>> ELSE ExprPhrases(SanitizeFtsQuery(term))[1]

\* "word"* matches the tokens that start with word
IsPrefix(word, token) == Len(word) <= Len(token) /\ SubSeq(token, 1, Len(word)) = word

Entry(id, title, content) == [document_id |-> id, title |-> title, content |-> content]

\* the rows of one document id, and how many they are
EntriesOf(fts, id) == { e \in BagToSet(fts) : e.document_id = id }

EntryCount(fts, id) == BagCardinality([e \in EntriesOf(fts, id) |-> fts[e]])

\* the DELETE matches nothing
DeleteEntriesNone(fts, id) == fts

\* DELETE FROM documents_fts WHERE document_id = ?1
DeleteEntries(fts, id) == [e \in { x \in BagToSet(fts) : x.document_id # id } |-> fts[e]]

\* the content column bound to the title
InsertEntryTitle(fts, e) == fts (+) SetToBag({[e EXCEPT !.content = e.title]})

\* INSERT INTO documents_fts (document_id, title, content) VALUES (?1, ?2, ?3)
InsertEntry(fts, e) == fts (+) SetToBag({e})

\* index_document_inner; fail: the statement that returns Err
IndexDocumentInner(fts, id, title, content, fail) ==
    IF fail = "delete" THEN [fts |-> fts, ok |-> FALSE]
    ELSE IF fail = "insert" THEN [fts |-> DeleteEntries(fts, id), ok |-> FALSE]
    ELSE [fts |-> InsertEntry(DeleteEntries(fts, id), Entry(id, title, content)), ok |-> TRUE]

\* the DELETE without its WHERE clause
RemoveEverything(fts, id, fail) ==
    IF fail THEN [fts |-> fts, ok |-> FALSE] ELSE [fts |-> EmptyBag, ok |-> TRUE]

\* remove_document_index_inner; fail: the DELETE returns Err
RemoveDocumentIndexInner(fts, id, fail) ==
    IF fail THEN [fts |-> fts, ok |-> FALSE]
    ELSE [fts |-> DeleteEntries(fts, id), ok |-> TRUE]

\* a phrase matches a column when its tokens are consecutive tokens of the
\* column, the last one as a prefix
PhraseMatches(tokens, phrase) ==
    LET pt == PhraseTokens(phrase)
    IN /\ pt # <<>>
       /\ \E k \in 0..(Len(tokens) - Len(pt)) :
            \A j \in 1..Len(pt) :
                IF j < Len(pt) THEN tokens[k + j] = pt[j] ELSE IsPrefix(pt[j], tokens[k + j])

\* WHERE documents_fts MATCH ?1: every phrase of the expression matches the
\* title or the content
MatchesExpr(e, expr) ==
    \A k \in 1..Len(ExprPhrases(expr)) :
        \/ PhraseMatches(TokensOf(e.title), ExprPhrases(expr)[k])
        \/ PhraseMatches(TokensOf(e.content), ExprPhrases(expr)[k])

MatchingRows(fts, expr) ==
    [e \in { x \in BagToSet(fts) : MatchesExpr(x, expr) } |-> fts[e]]

\* a row matches a query: the query has an expression and the row matches it
Matches(e, term) ==
    /\ SanitizeFtsQuery(term) # <<>>
    /\ MatchesExpr(e, SanitizeFtsQuery(term))

\* the document ids search_documents_inner returns for a query
SearchIds(fts, term) == { e.document_id : e \in { x \in BagToSet(fts) : Matches(x, term) } }

\* LIMIT ?2 on n rows: a negative LIMIT is no limit in SQLite
LimitRows(n, limit) == IF limit < 0 THEN n ELSE Min(n, limit)

\* the MATCH run on whatever sanitize_fts_query returns
SearchCountUnchecked(fts, query, limit) ==
    LimitRows(BagCardinality(MatchingRows(fts, SanitizeFtsQuery(query))), limit)

\* search_documents_inner: the number of rows it returns
SearchCount(fts, query, limit) ==
    IF SanitizeFtsQuery(query) = <<>> THEN 0
    ELSE LimitRows(BagCardinality(MatchingRows(fts, SanitizeFtsQuery(query))), limit)

\* UPDATE documents SET access_count = COALESCE(access_count, 0) + 1 WHERE id = ?1
IncrementAccessCount(rows, id) ==
    { IF d.id = id
      THEN [d EXCEPT !.access_count = (IF @ = NoCount THEN 0 ELSE @) + 1]
      ELSE d : d \in rows }

\* the UPDATE left out
StampIndexedNever(rows, id, now) == rows

\* the UPDATE without its WHERE clause
StampIndexedAll(rows, id, now) == { [d EXCEPT !.indexed_at = now] : d \in rows }

\* UPDATE documents SET indexed_at = ?1 WHERE id = ?2
StampIndexed(rows, id, now) ==
    { IF d.id = id THEN [d EXCEPT !.indexed_at = now] ELSE d : d \in rows }

\* the content column of the row of id, "" when there is none
ContentOf(fts, id) ==
    IF EntriesOf(fts, id) = {} THEN "" ELSE (CHOOSE e \in EntriesOf(fts, id) : TRUE).content

\* op, id, title, content, query, limit: the call; fail: the statement the
\* database failed; ok: the call returned Ok; prev: the content indexed for id
\* before the call; locked: the call took the connection lock; count: the
\* number of rows returned; expr: the expression of the query; above: the
\* pairs of returned ids in their ranking order
NoObs == [op |-> "none", id |-> "", title |-> "", content |-> "", fail |-> "none",
          ok |-> FALSE, prev |-> "", query |-> <<>>, limit |-> 0, locked |-> FALSE,
          count |-> 0, expr |-> <<>>, above |-> {}, exported |-> {}]

\* a lock() that returns although the guard is out
LockIgnored == TRUE

\* state.0.lock() returns: no other call has the guard of the Mutex
LockFree == lock = "free"

\* the error of increment_access_count returned to the caller
IndexResultStrict(replaced, bumped) == replaced /\ bumped

\* index_document_inner(..)?; let _ = increment_access_count(..); Ok(())
IndexResult(replaced, bumped) == replaced

\* index_document(id, title, content); fail: the statement that returns Err,
\* "bump" for the UPDATE of access_count
IndexCall(id, title, content, fail) ==
    /\ app = "serving"
    /\ LockFree
    /\ LET res == IndexDocumentInner(documents_fts, id, title, content, fail)
           bumped == res.ok /\ fail # "bump"
       IN /\ \A d \in documents.rows : d.id = id => d.access_count < MaxAccess
          /\ documents_fts' = res.fts
          /\ documents' = IF bumped
                          THEN [documents EXCEPT !.rows = IncrementAccessCount(@, id)]
                          ELSE documents
          /\ obs' = [NoObs EXCEPT !.op = "index", !.id = id, !.title = title,
                                  !.content = content, !.fail = fail,
                                  !.ok = IndexResult(res.ok, bumped),
                                  !.prev = ContentOf(documents_fts, id), !.locked = TRUE]
    /\ UNCHANGED <<dbVars, clock, fsys, lock, runs>>

IndexFails == {"none", "delete", "insert", "bump"}

\* index_document for the documents that have a row, the UPDATE of
\* access_count never failing
IndexDocument ==
    \E id \in IndexIds, title \in Titles, content \in Contents,
       fail \in IndexFails \ {"bump"} :
        IndexCall(id, title, content, fail)

\* index_document for any document id
IndexAnyDocument ==
    \E id \in {"d1", "d3"}, fail \in IndexFails : IndexCall(id, "Doc", "old cat", fail)

\* observation only: a run with a journal that has read its list of documents
\* notes the ids whose entries a remove_document_index call deleted since
RemovalNoted(run, id, gone) ==
    IF run.journal /\ gone /\ run.pc \notin {"idle", "snapshot"}
    THEN [run EXCEPT !.removed = @ \cup {id}]
    ELSE run

\* remove_document_index
RemoveDocumentIndex ==
    /\ app = "serving"
    /\ LockFree
    /\ \E id \in RemoveIds, fail \in BOOLEAN :
         LET res == RemoveDocumentIndexInner(documents_fts, id, fail)
         IN /\ documents_fts' = res.fts
            /\ runs' = [r \in DOMAIN runs |->
                          RemovalNoted(runs[r], id,
                                       res.ok /\ EntriesOf(documents_fts, id) # {})]
            /\ obs' = [NoObs EXCEPT !.op = "remove", !.id = id,
                                    !.fail = IF fail THEN "delete" ELSE "none",
                                    !.ok = res.ok, !.prev = ContentOf(documents_fts, id),
                                    !.locked = TRUE]
    /\ UNCHANGED <<dbVars, documents, clock, fsys, lock>>

\* limit.unwrap_or(20)
DefaultLimit == 20
LimitValues == -1..MaxLimit
NoLimit == [given |-> FALSE, value |-> 0]
Limits == {NoLimit} \cup { [given |-> TRUE, value |-> v] : v \in LimitValues }
EffectiveLimit(limit) == IF limit.given THEN limit.value ELSE DefaultLimit

\* bm25(documents_fts, 10.0, 1.0), coarsely: negative, better when lower, a
\* phrase found in the title weighing ten times one found in the content
Bm25(e, expr) ==
    LET phrases == ExprPhrases(expr)
        inTitle == { k \in 1..Len(phrases) : PhraseMatches(TokensOf(e.title), phrases[k]) }
        inContent == { k \in 1..Len(phrases) : PhraseMatches(TokensOf(e.content), phrases[k]) }
    IN 0 - (10 * Cardinality(inTitle) + Cardinality(inContent))

\* LEFT JOIN documents d ON d.id = f.document_id, with the COALESCEs of the
\* ORDER BY: no row, or a NULL column, counts as 0
JoinedAccessCount(rows, id) ==
    IF \E d \in rows : d.id = id /\ d.access_count # NoCount
    THEN (CHOOSE d \in rows : d.id = id).access_count
    ELSE 0

JoinedLastOpened(rows, id) ==
    IF \E d \in rows : d.id = id THEN (CHOOSE d \in rows : d.id = id).last_opened_at ELSE 0

\* the days taken as always 0
DaysSinceZero(now, opened) == 0

\* the difference without MAX(0, ..)
DaysSinceSigned(now, opened) == now - opened

\* MAX(0, julianday('now') - julianday(datetime(last_opened_at / 1000, 'unixepoch'))),
\* with now and last_opened_at counted in days
DaysSince(now, opened) == IF now - opened < 0 THEN 0 ELSE now - opened

\* the bonus access_count / (1 + days * 0.1) * 0.3 as the fraction
\* (3 * access_count) / (10 + days)
BonusNumFlat(access_count) == 3

BonusNum(access_count) == 3 * access_count

\* a decay rate of 0.001
BonusDenSlow(days) == 1000 + days

BonusDen(days) == 10 + days

\* bm25 - bonus of entry a is below that of entry b: a comes before b in
\* ORDER BY. Both sides are multiplied by the two (positive) denominators.
ScoreBelow(rows, a, b, expr, now) ==
    LET da == BonusDen(DaysSince(now, JoinedLastOpened(rows, a.document_id)))
        db == BonusDen(DaysSince(now, JoinedLastOpened(rows, b.document_id)))
        na == BonusNum(JoinedAccessCount(rows, a.document_id))
        nb == BonusNum(JoinedAccessCount(rows, b.document_id))
    IN (Bm25(a, expr) * da - na) * db < (Bm25(b, expr) * db - nb) * da

\* the pairs <<a, b>> of document ids where the row of a comes before the row
\* of b in every order the ORDER BY allows
RankedAbove(fts, rows, expr, now) ==
    LET found == BagToSet(MatchingRows(fts, expr))
    IN { <<p[1].document_id, p[2].document_id>> :
           p \in { q \in found \X found : ScoreBelow(rows, q[1], q[2], expr, now) } }

\* search_documents taking the lock before it looks at the query
SearchCallLocked(query, limit, fail) ==
    /\ app = "serving"
    /\ LockFree
    /\ LET expr == SanitizeFtsQuery(query)
           failed == fail /\ expr # <<>>
       IN obs' = [NoObs EXCEPT !.op = "search", !.query = query,
                               !.limit = EffectiveLimit(limit), !.locked = TRUE,
                               !.expr = expr, !.ok = ~failed,
                               !.fail = IF failed THEN "select" ELSE "none",
                               !.count = IF failed THEN 0
                                         ELSE SearchCount(documents_fts, query,
                                                          EffectiveLimit(limit))]
    /\ UNCHANGED <<dbVars, documents, clock, documents_fts, fsys, lock, runs>>

\* search_documents(query, limit); fail: prepare or query_map returns Err
SearchCall(query, limit, fail) ==
    /\ app = "serving"
    /\ IF Trim(query) = <<>>
       THEN obs' = [NoObs EXCEPT !.op = "search", !.query = query,
                                 !.limit = EffectiveLimit(limit), !.ok = TRUE]
       ELSE /\ LockFree
            /\ LET expr == SanitizeFtsQuery(query)
                   failed == fail /\ expr # <<>>
               IN obs' = [NoObs EXCEPT !.op = "search", !.query = query,
                                       !.limit = EffectiveLimit(limit), !.locked = TRUE,
                                       !.expr = expr, !.ok = ~failed,
                                       !.fail = IF failed THEN "select" ELSE "none",
                                       !.count = IF failed THEN 0
                                                 ELSE SearchCount(documents_fts, query,
                                                                  EffectiveLimit(limit)),
                                       !.above = IF failed \/ expr = <<>> THEN {}
                                                 ELSE RankedAbove(documents_fts, documents.rows,
                                                                  expr, clock)]
    /\ UNCHANGED <<dbVars, documents, clock, documents_fts, fsys, lock, runs>>

\* the queries the command is called with next to other commands
SearchQueries == {<<>>, <<" ", "\t">>, <<"c", "a", "t">>, <<"O", "R">>}

SearchDocuments ==
    \E query \in SearchQueries, fail \in BOOLEAN : SearchCall(query, NoLimit, fail)

-----------------------------------------------------------------------------
(* index_all_documents, one call r at a time through its steps *)

\* what a journal keeps of the run that returned last
NoLast == [docs |-> <<>>, outcomes |-> <<>>, start |-> <<>>, end |-> <<>>]

\* journal, outcomes, start and last are observation only: a run with a
\* journal notes the outcome of every document and the files as they were
\* when it took its time, and keeps them when it returns
IdleRun == [pc |-> "idle", docs |-> <<>>, i |-> 0, now_ms |-> 0, content |-> "",
            indexed |-> 0, skipped |-> 0, errors |-> 0,
            journal |-> FALSE, outcomes |-> <<>>, start |-> <<>>, last |-> NoLast,
            removed |-> {}]

\* the outcome of the document noted in the journal
Noted(run, outcome) ==
    IF run.journal THEN [run EXCEPT !.outcomes = Append(@, outcome)] ELSE run

\* SELECT id, file_path, title, indexed_at FROM documents WHERE file_path IS NOT NULL
SnapshotDocs(rows) ==
    LET ids == SelectSeq(DocOrder, LAMBDA d : \E x \in rows : x.id = d /\ x.file_path # NULL)
    IN [k \in 1..Len(ids) |->
          LET x == CHOOSE y \in rows : y.id = ids[k]
          IN [id |-> x.id, file_path |-> x.file_path, title |-> x.title,
              indexed_at |-> x.indexed_at]]

\* title.as_deref().unwrap_or("Untitled")
DocTitle(d) == IF d.title = NULL THEN "Untitled" ELSE d.title

\* continue, or the end of the for loop
NextDoc(run) ==
    [run EXCEPT !.i = @ + 1, !.content = "",
                !.pc = IF run.i + 1 > Len(run.docs) THEN "done" ELSE "stat"]

\* the command is called: state.0.lock()
ReindexLock(r) ==
    /\ app = "serving"
    /\ runs[r].pc = "idle"
    /\ LockFree
    /\ lock' = r
    /\ runs' = [runs EXCEPT ![r].pc = "snapshot"]
    /\ obs' = NoObs
    /\ UNCHANGED <<dbVars, documents, clock, documents_fts, fsys>>

\* the SELECT with the guard kept past the end of the block
ReindexSnapshotHolding(r) ==
    /\ runs[r].pc = "snapshot"
    /\ lock = r
    /\ runs' = [runs EXCEPT ![r].docs = SnapshotDocs(documents.rows), ![r].pc = "now"]
    /\ obs' = NoObs
    /\ UNCHANGED <<dbVars, documents, clock, documents_fts, fsys, lock>>

\* ensure_fts_table, the SELECT, and the lock dropped at the end of the block
ReindexSnapshot(r) ==
    /\ runs[r].pc = "snapshot"
    /\ lock = r
    /\ lock' = "free"
    /\ runs' = [runs EXCEPT ![r].docs = SnapshotDocs(documents.rows), ![r].pc = "now"]
    /\ obs' = NoObs
    /\ UNCHANGED <<dbVars, documents, clock, documents_fts, fsys>>

\* let now_ms = SystemTime::now()
ReindexNow(r) ==
    /\ runs[r].pc = "now"
    /\ runs' = [runs EXCEPT ![r] =
                   NextDoc([@ EXCEPT !.now_ms = clock,
                                     !.start = IF runs[r].journal THEN fsys ELSE <<>>])]
    /\ obs' = NoObs
    /\ UNCHANGED <<dbVars, documents, clock, documents_fts, fsys, lock>>

\* a failed fs::metadata counted as an error
SkipMissingAsError(run) == NextDoc(Noted([run EXCEPT !.errors = @ + 1], "missing"))

\* Err(_) => { skipped += 1; continue; }
SkipMissing(run) == NextDoc(Noted([run EXCEPT !.skipped = @ + 1], "missing"))

\* the file read although mtime_ms <= *ia
SkipUnchangedReread(run) == [run EXCEPT !.pc = "read"]

\* if mtime_ms <= *ia { skipped += 1; continue; }
SkipUnchanged(run) == NextDoc(Noted([run EXCEPT !.skipped = @ + 1], "unchanged"))

\* fs::metadata and the comparison of mtime with the indexed_at of the snapshot;
\* statOk: the metadata of an existing file could be read
ReindexStat(r) ==
    /\ runs[r].pc = "stat"
    /\ \E statOk \in BOOLEAN :
         LET run == runs[r]
             d == run.docs[run.i]
             f == fsys[d.file_path]
         IN runs' = [runs EXCEPT ![r] =
                       IF ~f.exists \/ ~statOk
                       THEN SkipMissing(run)
                       ELSE IF d.indexed_at # NoTime /\ f.mtime <= d.indexed_at
                       THEN SkipUnchanged(run)
                       ELSE [run EXCEPT !.pc = "read"]]
    /\ obs' = NoObs
    /\ UNCHANGED <<dbVars, documents, clock, documents_fts, fsys, lock>>

\* the failed read ends the loop: break in the place of continue
ReadFailedStop(run) == [Noted([run EXCEPT !.errors = @ + 1], "error") EXCEPT !.pc = "done"]

\* Err(e) => { errors += 1; continue; }
ReadFailed(run) == NextDoc(Noted([run EXCEPT !.errors = @ + 1], "error"))

\* fs::read_to_string; readable: the bytes could be read as UTF-8
ReindexRead(r) ==
    /\ runs[r].pc = "read"
    /\ \E readable \in BOOLEAN :
         LET run == runs[r]
             f == fsys[run.docs[run.i].file_path]
         IN runs' = [runs EXCEPT ![r] =
                       IF f.exists /\ readable
                       THEN [run EXCEPT !.content = f.content, !.pc = "lock"]
                       ELSE ReadFailed(run)]
    /\ obs' = NoObs
    /\ UNCHANGED <<dbVars, documents, clock, documents_fts, fsys, lock>>

\* state.0.lock() inside the loop
ReindexRelock(r) ==
    /\ runs[r].pc = "lock"
    /\ LockFree
    /\ lock' = r
    /\ runs' = [runs EXCEPT ![r].pc = "write"]
    /\ obs' = NoObs
    /\ UNCHANGED <<dbVars, documents, clock, documents_fts, fsys>>

\* index_document_inner, the UPDATE of indexed_at, and the guard dropped
ReindexWrite(r) ==
    /\ runs[r].pc = "write"
    /\ lock = r
    /\ \E fail \in {"none", "delete", "insert"} :
         LET run == runs[r]
             d == run.docs[run.i]
             res == IndexDocumentInner(documents_fts, d.id, DocTitle(d), run.content, fail)
         IN /\ documents_fts' = res.fts
            /\ documents' = IF res.ok
                            THEN [documents EXCEPT !.rows = StampIndexed(@, d.id, run.now_ms)]
                            ELSE documents
            /\ runs' = [runs EXCEPT ![r] =
                          IF res.ok THEN NextDoc(Noted([run EXCEPT !.indexed = @ + 1], "indexed"))
                          ELSE NextDoc(Noted([run EXCEPT !.errors = @ + 1], "error"))]
    /\ lock' = "free"
    /\ obs' = NoObs
    /\ UNCHANGED <<dbVars, clock, fsys>>

\* Ok(IndexAllResult { indexed, skipped, errors })
ReindexReturn(r) ==
    /\ runs[r].pc = "done"
    /\ runs' = [runs EXCEPT ![r] =
                   IF runs[r].journal
                   THEN [IdleRun EXCEPT !.journal = TRUE,
                                        !.last = [docs |-> runs[r].docs,
                                                  outcomes |-> runs[r].outcomes,
                                                  start |-> runs[r].start,
                                                  end |-> fsys]]
                   ELSE IdleRun]
    /\ obs' = NoObs
    /\ UNCHANGED <<dbVars, documents, clock, documents_fts, fsys, lock>>

\* time passes
Tick ==
    /\ app = "serving"
    /\ clock < MaxTime
    /\ clock' = clock + 1
    /\ obs' = NoObs
    /\ UNCHANGED <<dbVars, documents, documents_fts, fsys, lock, runs>>

\* an editor saves a file with other content
ModifyFile ==
    /\ app = "serving"
    /\ \E p \in EditedPaths, c \in Contents :
         /\ c # fsys[p].content
         /\ fsys' = [fsys EXCEPT ![p] = [exists |-> TRUE, mtime |-> clock, content |-> c]]
    /\ obs' = NoObs
    /\ UNCHANGED <<dbVars, documents, clock, documents_fts, lock, runs>>

\* a file is deleted
RemoveFile ==
    /\ app = "serving"
    /\ \E p \in DeletedPaths :
         /\ fsys[p].exists
         /\ fsys' = [fsys EXCEPT ![p].exists = FALSE]
    /\ obs' = NoObs
    /\ UNCHANGED <<dbVars, documents, clock, documents_fts, lock, runs>>

-----------------------------------------------------------------------------
(* commands/documents.rs and rename_file of commands/files.rs *)

\* the documents upsert_document is called with; id "" is an empty id
DocInputs ==
    [id : {"", "d2"}, file_path : {NULL, "/a.md"},
     keep_local_id : {NULL, "k1"}, title : {"Doc"}, last_opened_at : {0}]

\* Uuid::new_v4()
NewDocIds == {"n1"}

\* SELECT id FROM documents WHERE file_path = ?1, or WHERE keep_local_id = ?1
\* when the document has no file path; "" when there is no such row
ExistingId(rows, doc) ==
    IF doc.file_path # NULL
    THEN IF \E d \in rows : d.file_path = doc.file_path
         THEN (CHOOSE d \in rows : d.file_path = doc.file_path).id ELSE ""
    ELSE IF doc.keep_local_id # NULL
    THEN IF \E d \in rows : d.keep_local_id = doc.keep_local_id
         THEN (CHOOSE d \in rows : d.keep_local_id = doc.keep_local_id).id ELSE ""
    ELSE ""

\* doc.id = eid, or a new uuid for an empty id
UpsertId(rows, doc, fresh) ==
    IF ExistingId(rows, doc) # "" THEN ExistingId(rows, doc)
    ELSE IF doc.id = "" THEN fresh
    ELSE doc.id

\* INSERT OR REPLACE: the row written anew, access_count back at its default
UpsertRowReplace(rows, doc, id) ==
    [id |-> id, file_path |-> doc.file_path, keep_local_id |-> doc.keep_local_id,
     title |-> doc.title, last_opened_at |-> doc.last_opened_at, access_count |-> 0,
     indexed_at |-> NoTime]

\* INSERT .. ON CONFLICT(id) DO UPDATE SET ..: access_count and indexed_at
\* are not in the SET list; a new row gets their defaults
UpsertRow(rows, doc, id) ==
    IF \E d \in rows : d.id = id
    THEN [(CHOOSE d \in rows : d.id = id) EXCEPT
             !.file_path = doc.file_path, !.keep_local_id = doc.keep_local_id,
             !.title = doc.title, !.last_opened_at = doc.last_opened_at]
    ELSE [id |-> id, file_path |-> doc.file_path, keep_local_id |-> doc.keep_local_id,
          title |-> doc.title, last_opened_at |-> doc.last_opened_at, access_count |-> 0,
          indexed_at |-> NoTime]

\* a table without its UNIQUE constraints
ConflictsNone(rows, r) == FALSE

\* UNIQUE(file_path), UNIQUE(keep_local_id): another row has the value
Conflicts(rows, r) ==
    \E d \in rows :
        /\ d.id # r.id
        /\ \/ r.file_path # NULL /\ d.file_path = r.file_path
           \/ r.keep_local_id # NULL /\ d.keep_local_id = r.keep_local_id

\* upsert_document_inner; fail: the INSERT returns Err for another reason
UpsertDocumentInner(rows, doc, fresh, fail) ==
    LET id == UpsertId(rows, doc, fresh)
        r == UpsertRow(rows, doc, id)
    IN IF fail \/ Conflicts(rows, r)
       THEN [rows |-> rows, ok |-> FALSE, id |-> ""]
       ELSE [rows |-> { d \in rows : d.id # id } \cup {r}, ok |-> TRUE, id |-> id]

\* upsert_document(doc)
UpsertCall(doc, fail) ==
    /\ app = "serving"
    /\ LockFree
    /\ \E fresh \in NewDocIds :
         /\ UpsertId(documents.rows, doc, fresh) = fresh
               => \A d \in documents.rows : d.id # fresh
         /\ LET res == UpsertDocumentInner(documents.rows, doc, fresh, fail)
            IN /\ documents' = [documents EXCEPT !.rows = res.rows]
               /\ obs' = [NoObs EXCEPT !.op = "upsert", !.id = res.id, !.ok = res.ok,
                                       !.locked = TRUE,
                                       !.fail = IF fail THEN "insert" ELSE "none"]
    /\ UNCHANGED <<dbVars, clock, documents_fts, fsys, lock, runs>>

UpsertDocument == \E doc \in DocInputs, fail \in BOOLEAN : UpsertCall(doc, fail)

\* upsert_document as called when a file is opened: a file path, no other id
OpenedDocs == { doc \in DocInputs : doc.id = "" /\ doc.file_path # NULL /\ doc.keep_local_id = NULL }

UpsertOpened == \E doc \in OpenedDocs, fail \in BOOLEAN : UpsertCall(doc, fail)

\* the title of a renamed file: the name without .md
TitleOfPath(path) == IF path = "/a.md" THEN "a" ELSE "b"

\* rename_file_inner(old_path, new_name) with new the path of the new name;
\* fail: the statement that returns Err
RenameCall(old, new, fail) ==
    /\ app = "serving"
    /\ LockFree
    /\ LET moved == { d \in documents.rows : d.file_path = old }
           taken == \E d \in documents.rows : d.file_path = new /\ d.file_path # old
           done == /\ ~fsys[new].exists
                   /\ fsys[old].exists
                   /\ fail = "none"
                   /\ ~taken
                   /\ Cardinality(moved) = 1
       IN /\ fsys' = IF done
                     THEN [fsys EXCEPT ![new] = fsys[old], ![old].exists = FALSE]
                     ELSE fsys
          /\ documents' = IF done
                          THEN [documents EXCEPT !.rows =
                                  { IF d.file_path = old
                                    THEN [d EXCEPT !.file_path = new, !.title = TitleOfPath(new)]
                                    ELSE d : d \in @ }]
                          ELSE documents
          /\ obs' = [NoObs EXCEPT !.op = "rename", !.ok = done, !.locked = TRUE,
                                  !.fail = fail,
                                  !.id = IF done THEN (CHOOSE d \in moved : TRUE).id ELSE ""]
    /\ UNCHANGED <<dbVars, clock, documents_fts, lock, runs>>

RenameFile ==
    \E old \in Paths, new \in Paths, fail \in {"none", "rename", "update", "select"} :
        old # new /\ RenameCall(old, new, fail)

\* init_db on a database whose corrections table is migrated and that has no
\* correction logs: the documents table created and its columns added
StartServing ==
    /\ app = "down"
    /\ hist.startups < MaxStartups
    /\ ~HasFks(corrections)
    /\ HasWritingTypeColumn(corrections)
    /\ ~dirExists
    /\ documents' = [CreateDocumentsIfAbsent(documents) EXCEPT !.ac = TRUE, !.ia = TRUE]
    /\ hist' = [hist EXCEPT !.startups = @ + 1]
    /\ app' = "serving"
    /\ obs' = NoObs
    /\ UNCHANGED <<corrVars, logs, dirExists, clock, bf, documents_fts, fsys, lock, runs>>

\* the application exits, whatever its commands are doing
StopServing ==
    /\ app = "serving"
    /\ app' = "down"
    /\ lock' = "free"
    /\ runs' = [r \in DOMAIN runs |-> IdleRun]
    /\ obs' = NoObs
    /\ UNCHANGED <<corrVars, logs, dirExists, hist, bf, documents, clock, documents_fts, fsys>>

-----------------------------------------------------------------------------
(* The database over its lifetime: startups and commands *)

OldRow1 ==
    [id |-> "u1", highlight_id |-> "h1", document_id |-> "d1", session_id |-> "s0",
     original_text |-> "old text", extended_context |-> NULL, notes_json |-> "[]",
     document_title |-> "Doc", document_source |-> "file", highlight_color |-> "yellow",
     created_at |-> 0, updated_at |-> 0, writing_type |-> NULL]

OldRow2 ==
    [id |-> "u2", highlight_id |-> "h2", document_id |-> "d1", session_id |-> "s0",
     original_text |-> "old text", extended_context |-> NULL, notes_json |-> "[]",
     document_title |-> NULL, document_source |-> "file", highlight_color |-> "yellow",
     created_at |-> 0, updated_at |-> 0, writing_type |-> NULL]

\* a database made by a version whose corrections table had foreign keys
OldCorrections ==
    { [exists |-> TRUE, fks |-> TRUE, wt |-> FALSE, rows |-> rs]
      : rs \in {{}, {OldRow1}, {OldRow1, OldRow2}} }

DocRow1 ==
    [id |-> "d1", file_path |-> "/a.md", keep_local_id |-> NULL, title |-> "Doc",
     last_opened_at |-> 0, access_count |-> 0, indexed_at |-> NoTime]

OldDocuments == [exists |-> TRUE, ac |-> FALSE, ia |-> FALSE, rows |-> {DocRow1}]

NoLogs == [f \in FileNames |-> <<>>]

OldLine ==
    JsonLine([highlight_id |-> "h1", document_id |-> "d1", session_id |-> "s1",
              original_text |-> "old version", notes |-> "[old]",
              document_source |-> "file", highlight_color |-> "yellow",
              exported_at |-> 1])

NoFiles == [p \in {} |-> 0]
NoRuns == [r \in {} |-> 0]

NoCall == [called |-> FALSE, imported |-> 0, before |-> {},
           env |-> [listing |-> <<>>, unreadable |-> {}, failing |-> {}], error |-> FALSE]

InitHist ==
    [startups |-> 0, ran |-> FALSE, imported |-> 0,
     importRuns |-> 0, rebuild |-> "none", original |-> NoTable,
     again |-> FALSE,
     applied |-> [fks |-> 0, wt |-> 0, ac |-> 0, ia |-> 0]]

\* a fresh installation; the log directory may hold a line of an earlier one
Init ==
    /\ corrections = NoTable
    /\ documents = NoDocuments
    /\ corrections_new = NoTable
    /\ saved = NoSnap
    /\ app = "down"
    /\ \/ logs = NoLogs /\ dirExists = FALSE
       \/ logs = [NoLogs EXCEPT ![1] = <<OldLine>>] /\ dirExists = TRUE
    /\ clock = 0
    /\ hist = InitHist
    /\ bf = NoCall
    /\ documents_fts = EmptyBag
    /\ fsys = NoFiles
    /\ lock = "free"
    /\ runs = NoRuns
    /\ obs = NoObs

Next ==
    \/ Start
    \/ RebuildSkip
    \/ StartupBackfill
    \/ AddWritingType
    \/ AddAccessCount
    \/ AddIndexedAt
    \/ Quit
    \/ PersistCorrections
    \/ DeleteCorrection
    \/ ExportAndClear

Spec == Init /\ [][Next]_vars

-----------------------------------------------------------------------------
(* The startups of a database of any earlier version *)

InitMigrate ==
    /\ \/ corrections = NoTable /\ documents = NoDocuments
       \/ corrections \in OldCorrections /\ documents = OldDocuments
    /\ corrections_new = NoTable
    /\ saved = NoSnap
    /\ app = "down"
    /\ \/ logs = NoLogs /\ dirExists \in BOOLEAN
       \/ logs = [NoLogs EXCEPT ![1] = <<OldLine>>] /\ dirExists = TRUE
    /\ clock = 0
    /\ hist = InitHist
    /\ bf = NoCall
    /\ documents_fts = EmptyBag
    /\ fsys = NoFiles
    /\ lock = "free"
    /\ runs = NoRuns
    /\ obs = NoObs

NextMigrate ==
    \/ Start
    \/ RebuildBegin
    \/ RebuildSkip
    \/ RebuildCreate
    \/ RebuildCopy
    \/ RebuildDrop
    \/ RebuildRename
    \/ RebuildCommit
    \/ StartupBackfill
    \/ AddWritingType
    \/ AddAccessCount
    \/ AddIndexedAt
    \/ Abort
    \/ Quit

SpecMigrate == InitMigrate /\ [][NextMigrate]_vars

-----------------------------------------------------------------------------
(* backfill_corrections_from_dir called on a directory, as the tests do *)

BoundedSeqs(S, n) == UNION { [1..k -> S] : k \in 0..n }

\* the first k lines in file 1, the rest in file 2
SplitAt(s, k) == [f \in FileNames |-> IF f = 1 THEN SubSeq(s, 1, k)
                                        ELSE SubSeq(s, k + 1, Len(s))]

LogDirs == UNION { { SplitAt(s, k) : k \in 0..Len(s) }
                   : s \in BoundedSeqs(Lines, MaxLogLines) }

\* setup_db, and the row backfill_upserts_on_duplicate_highlight_id pre-inserts
ExistingRow ==
    [id |-> "existing", highlight_id |-> "h1", document_id |-> "d1", session_id |-> "s1",
     original_text |-> "old text", extended_context |-> NULL, notes_json |-> "[]",
     document_title |-> NULL, document_source |-> "file", highlight_color |-> "yellow",
     created_at |-> 0, updated_at |-> 0, writing_type |-> NULL]

InitBackfill ==
    /\ corrections \in { [exists |-> TRUE, fks |-> FALSE, wt |-> TRUE, rows |-> rs]
                         : rs \in {{}, {ExistingRow}} }
    /\ corrections_new = NoTable
    /\ saved = NoSnap
    /\ documents = NoDocuments
    /\ app = "test"
    /\ \/ logs \in LogDirs /\ dirExists = TRUE
       \/ logs = NoLogs /\ dirExists = FALSE
    /\ clock = 0
    /\ hist = InitHist
    /\ bf = NoCall
    /\ documents_fts = EmptyBag
    /\ fsys = NoFiles
    /\ lock = "free"
    /\ runs = NoRuns
    /\ obs = NoObs

BackfillCall ==
    /\ app = "test"
    /\ ~bf.called
    /\ \E env \in Envs(logs) :
         LET res == BackfillFromDir(corrections.rows, dirExists, logs, env) IN
         /\ corrections' = [corrections EXCEPT !.rows = res.rows]
         /\ bf' = [called |-> TRUE, imported |-> res.imported,
                   before |-> corrections.rows,
                   env |-> [env EXCEPT !.listing = <<>>], error |-> res.error]
    /\ UNCHANGED <<corrections_new, saved, documents, app, logs, dirExists, clock, hist, ftsVars>>

NextBackfill == BackfillCall

SpecBackfill == InitBackfill /\ [][NextBackfill]_vars

-----------------------------------------------------------------------------
(* The search commands of a running application *)

DocRow2 ==
    [id |-> "d2", file_path |-> "/b.md", keep_local_id |-> NULL, title |-> NULL,
     last_opened_at |-> 0, access_count |-> 0, indexed_at |-> NoTime]

InitFts ==
    /\ corrections = [exists |-> TRUE, fks |-> FALSE, wt |-> TRUE, rows |-> {}]
    /\ corrections_new = NoTable
    /\ saved = NoSnap
    /\ documents = [exists |-> TRUE, ac |-> TRUE, ia |-> TRUE, rows |-> {DocRow1, DocRow2}]
    /\ app = "serving"
    /\ logs = NoLogs
    /\ dirExists = FALSE
    /\ clock = 0
    /\ hist = InitHist
    /\ bf = NoCall
    /\ documents_fts = EmptyBag
    /\ fsys = [p \in Paths |-> [exists |-> TRUE, mtime |-> 0, content |-> "old cat"]]
    /\ lock = "free"
    /\ runs = [r \in RunIds |-> IdleRun]
    /\ obs = NoObs

NextFts ==
    \/ IndexDocument
    \/ RemoveDocumentIndex
    \/ \E r \in RunIds :
         \/ ReindexLock(r)
         \/ ReindexSnapshot(r)
         \/ ReindexNow(r)
         \/ ReindexStat(r)
         \/ ReindexRead(r)
         \/ ReindexRelock(r)
         \/ ReindexWrite(r)
         \/ ReindexReturn(r)
    \/ Tick
    \/ ModifyFile
    \/ RemoveFile

SpecFts == InitFts /\ [][NextFts]_vars

\* one index_all_documents call after the other, with a journal, while a file
\* is edited
InitReentry ==
    /\ corrections = [exists |-> TRUE, fks |-> FALSE, wt |-> TRUE, rows |-> {}]
    /\ corrections_new = NoTable
    /\ saved = NoSnap
    /\ documents = [exists |-> TRUE, ac |-> TRUE, ia |-> TRUE, rows |-> {DocRow1, DocRow2}]
    /\ app = "serving"
    /\ logs = NoLogs
    /\ dirExists = FALSE
    /\ clock = 0
    /\ hist = InitHist
    /\ bf = NoCall
    /\ documents_fts = EmptyBag
    /\ fsys = [p \in Paths |-> [exists |-> TRUE, mtime |-> 0, content |-> "old cat"]]
    /\ lock = "free"
    /\ runs = [r \in RunIds |-> [IdleRun EXCEPT !.journal = TRUE]]
    /\ obs = NoObs

NextReentry ==
    \/ \E r \in RunIds :
         \/ ReindexLock(r)
         \/ ReindexSnapshot(r)
         \/ ReindexNow(r)
         \/ ReindexStat(r)
         \/ ReindexRead(r)
         \/ ReindexRelock(r)
         \/ ReindexWrite(r)
         \/ ReindexReturn(r)
    \/ Tick
    \/ ModifyFile

SpecReentry == InitReentry /\ [][NextReentry]_vars

\* index_all_documents calls with a journal while remove_document_index is
\* called; index_document has been called for none, one or both documents,
\* which leaves their indexed_at as it was
InitRemoval ==
    /\ corrections = [exists |-> TRUE, fks |-> FALSE, wt |-> TRUE, rows |-> {}]
    /\ corrections_new = NoTable
    /\ saved = NoSnap
    /\ documents = [exists |-> TRUE, ac |-> TRUE, ia |-> TRUE, rows |-> {DocRow1, DocRow2}]
    /\ app = "serving"
    /\ logs = NoLogs
    /\ dirExists = FALSE
    /\ clock = 0
    /\ hist = InitHist
    /\ bf = NoCall
    /\ documents_fts \in
          { EmptyBag,
            IndexDocumentInner(EmptyBag, "d1", "Doc", "old cat", "none").fts,
            IndexDocumentInner(
                IndexDocumentInner(EmptyBag, "d1", "Doc", "old cat", "none").fts,
                "d2", "Doc", "not cats", "none").fts }
    /\ fsys = [p \in Paths |-> [exists |-> TRUE, mtime |-> 0, content |-> "old cat"]]
    /\ lock = "free"
    /\ runs = [r \in RunIds |-> [IdleRun EXCEPT !.journal = TRUE]]
    /\ obs = NoObs

NextRemoval ==
    \/ RemoveDocumentIndex
    \/ \E r \in RunIds :
         \/ ReindexLock(r)
         \/ ReindexSnapshot(r)
         \/ ReindexNow(r)
         \/ ReindexStat(r)
         \/ ReindexRead(r)
         \/ ReindexRelock(r)
         \/ ReindexWrite(r)
         \/ ReindexReturn(r)

SpecRemoval == InitRemoval /\ [][NextRemoval]_vars

\* export_corrections_json with its result
ExportCorrectionsJson ==
    \E fail \in ExportFails :
        /\ ExportCall(fail)
        /\ LET res == ExportAndClearCorrections(corrections.rows, fail)
           IN obs' = [NoObs EXCEPT !.op = "export", !.fail = fail, !.ok = res.ok,
                                   !.count = res.count, !.exported = res.exported]

\* a started application whose table holds the sentinel or not, and the
\* commands that write the corrections table
InitExport ==
    /\ corrections \in { [exists |-> TRUE, fks |-> FALSE, wt |-> TRUE, rows |-> rows] :
                            rows \in {{}, {SentinelRow}} }
    /\ corrections_new = NoTable
    /\ saved = NoSnap
    /\ documents = [exists |-> TRUE, ac |-> TRUE, ia |-> TRUE, rows |-> {}]
    /\ app = "up"
    /\ logs = NoLogs
    /\ dirExists = FALSE
    /\ clock = 0
    /\ hist = InitHist
    /\ bf = NoCall
    /\ documents_fts = EmptyBag
    /\ fsys = NoFiles
    /\ lock = "free"
    /\ runs = NoRuns
    /\ obs = NoObs

NextExport ==
    \/ PersistCorrections
    \/ DeleteCorrection
    \/ ExportCorrectionsJson

SpecExport == InitExport /\ [][NextExport]_vars

\* every step of a run that needs no lock is taken when it stays possible
\* (the file operations return), and the lock is granted to a run that asks
\* for it again and again
LiveReindex(r) ==
    /\ WF_vars(ReindexSnapshot(r))
    /\ WF_vars(ReindexNow(r))
    /\ WF_vars(ReindexStat(r))
    /\ WF_vars(ReindexRead(r))
    /\ SF_vars(ReindexRelock(r))
    /\ WF_vars(ReindexWrite(r))

SpecFtsLive == SpecFts /\ \A r \in RunIds : LiveReindex(r)

-----------------------------------------------------------------------------
(* Two index_all_documents calls next to the other search commands, over one
   document *)

LockRunIds == {"r1", "r2"}

InitLock ==
    /\ corrections = [exists |-> TRUE, fks |-> FALSE, wt |-> TRUE, rows |-> {}]
    /\ corrections_new = NoTable
    /\ saved = NoSnap
    /\ documents = [exists |-> TRUE, ac |-> TRUE, ia |-> TRUE, rows |-> {DocRow1}]
    /\ app = "serving"
    /\ logs = NoLogs
    /\ dirExists = FALSE
    /\ clock = 0
    /\ hist = InitHist
    /\ bf = NoCall
    /\ documents_fts = EmptyBag
    /\ fsys = [p \in Paths |-> [exists |-> TRUE, mtime |-> 0, content |-> "old cat"]]
    /\ lock = "free"
    /\ runs = [r \in LockRunIds |-> IdleRun]
    /\ obs = NoObs

NextLock ==
    \/ IndexDocument
    \/ RemoveDocumentIndex
    \/ SearchDocuments
    \/ \E r \in LockRunIds :
         \/ ReindexLock(r)
         \/ ReindexSnapshot(r)
         \/ ReindexNow(r)
         \/ ReindexStat(r)
         \/ ReindexRead(r)
         \/ ReindexRelock(r)
         \/ ReindexWrite(r)
         \/ ReindexReturn(r)
    \/ ModifyFile

SpecLock == InitLock /\ [][NextLock]_vars

\* a database of the schema before the frecency columns, with one document,
\* started, used and stopped
InitDocs ==
    /\ corrections = [exists |-> TRUE, fks |-> FALSE, wt |-> TRUE, rows |-> {}]
    /\ corrections_new = NoTable
    /\ saved = NoSnap
    /\ documents = [exists |-> TRUE, ac |-> FALSE, ia |-> FALSE, rows |-> {DocRow1}]
    /\ app = "down"
    /\ logs = NoLogs
    /\ dirExists = FALSE
    /\ clock = 0
    /\ hist = InitHist
    /\ bf = NoCall
    /\ documents_fts = EmptyBag
    /\ fsys = [p \in Paths |->
                 [exists |-> p = "/a.md", mtime |-> 0, content |-> "old cat"]]
    /\ lock = "free"
    /\ runs = [r \in RunIds |-> IdleRun]
    /\ obs = NoObs

NextDocs ==
    \/ StartServing
    \/ StopServing
    \/ UpsertDocument
    \/ RenameFile
    \/ IndexAnyDocument

SpecDocs == InitDocs /\ [][NextDocs]_vars

\* the same database with every command that writes the documents table
NextAccess ==
    \/ StartServing
    \/ StopServing
    \/ UpsertOpened
    \/ RenameFile
    \/ IndexAnyDocument
    \/ \E r \in RunIds :
         \/ ReindexLock(r)
         \/ ReindexSnapshot(r)
         \/ ReindexNow(r)
         \/ ReindexStat(r)
         \/ ReindexRead(r)
         \/ ReindexRelock(r)
         \/ ReindexWrite(r)
         \/ ReindexReturn(r)

SpecAccess == InitDocs /\ [][NextAccess]_vars

-----------------------------------------------------------------------------
(* Ranking: search_documents over two indexed documents with every access
   count and day of last opening below; the clock and last_opened_at count
   days *)

OneYear == 365
TwoYears == 730
AccessCounts == {0, 1, 3, 50, 100}
OpenedDays == {0, OneYear, TwoYears, TwoYears + 1}

InitRank ==
    /\ corrections = [exists |-> TRUE, fks |-> FALSE, wt |-> TRUE, rows |-> {}]
    /\ corrections_new = NoTable
    /\ saved = NoSnap
    /\ \E ac1 \in AccessCounts, ac2 \in AccessCounts, o1 \in OpenedDays, o2 \in OpenedDays :
         documents = [exists |-> TRUE, ac |-> TRUE, ia |-> TRUE,
                      rows |-> {[DocRow1 EXCEPT !.access_count = ac1, !.last_opened_at = o1],
                                [DocRow2 EXCEPT !.access_count = ac2, !.last_opened_at = o2]}]
    /\ app = "serving"
    /\ logs = NoLogs
    /\ dirExists = FALSE
    /\ clock = TwoYears
    /\ hist = InitHist
    /\ bf = NoCall
    /\ \E content \in Contents :
         documents_fts = SetToBag({Entry("d1", "Doc", "old cat"), Entry("d2", "Doc", content)})
    /\ fsys = [p \in Paths |-> [exists |-> TRUE, mtime |-> 0, content |-> "old cat"]]
    /\ lock = "free"
    /\ runs = [r \in RunIds |-> IdleRun]
    /\ obs = NoObs

\* search_documents("cat")
RankSearch == \E fail \in BOOLEAN : SearchCall(<<"c", "a", "t">>, NoLimit, fail)

NextRank == RankSearch

SpecRank == InitRank /\ [][NextRank]_vars

-----------------------------------------------------------------------------
(* Queries: sanitize_fts_query and search_documents on every query made of
   at most MaxQueryParts parts, over an index of two documents *)

QueryParts ==
    {<<"c", "a", "t">>, <<"O", "R">>, <<"N", "o", "t">>, <<" ">>, <<"\t">>, <<"\"">>,
     <<"+">>, <<"-">>}

RECURSIVE Flatten(_)
Flatten(parts) == IF parts = <<>> THEN <<>> ELSE Head(parts) \o Flatten(Tail(parts))

QueryInputs == { Flatten(parts) : parts \in BoundedSeqs(QueryParts, MaxQueryParts) }

InitSearch ==
    /\ corrections = [exists |-> TRUE, fks |-> FALSE, wt |-> TRUE, rows |-> {}]
    /\ corrections_new = NoTable
    /\ saved = NoSnap
    /\ documents = [exists |-> TRUE, ac |-> TRUE, ia |-> TRUE, rows |-> {DocRow1, DocRow2}]
    /\ app = "serving"
    /\ logs = NoLogs
    /\ dirExists = FALSE
    /\ clock = 0
    /\ hist = InitHist
    /\ bf = NoCall
    /\ documents_fts = SetToBag({Entry("d1", "Doc", "old cat"), Entry("d2", "Untitled", "not cats")})
    /\ fsys = [p \in Paths |-> [exists |-> TRUE, mtime |-> 0, content |-> "old cat"]]
    /\ lock = "free"
    /\ runs = [r \in RunIds |-> IdleRun]
    /\ \E query \in QueryInputs : obs = [NoObs EXCEPT !.op = "query", !.query = query]

\* sanitize_fts_query on the query
SanitizeQuery ==
    /\ obs.op = "query"
    /\ obs' = [obs EXCEPT !.op = "sanitized", !.expr = SanitizeFtsQuery(obs.query)]
    /\ UNCHANGED <<dbVars, documents, clock, documents_fts, fsys, lock, runs>>

\* search_documents on the query
SearchQuery ==
    /\ obs.op = "sanitized"
    /\ \E limit \in Limits, fail \in BOOLEAN : SearchCall(obs.query, limit, fail)

NextSearch == SanitizeQuery \/ SearchQuery

SpecSearch == InitSearch /\ [][NextSearch]_vars

-----------------------------------------------------------------------------
(* Properties of the full-text index *)

DocIds == {"d1", "d2"}

\* a step in which index_document or index_all_documents writes the row of id
IndexingStep(id) ==
    \/ obs'.op = "index" /\ obs'.id = id
    \/ \E r \in RunIds : /\ runs[r].pc = "write"
                         /\ runs[r].docs[runs[r].i].id = id

\* C2: whatever the sequence and interleaving of index_document,
\* remove_document_index and index_all_documents, documents_fts holds at most
\* one row per document id.
C2_OneEntryPerDocument ==
    \A id \in DocIds : EntryCount(documents_fts, id) <= 1

\* index_document wrote d1 while index_all_documents had read the file of d1
\* and waited for the lock
C2_Witness ==
    /\ obs.op = "index" /\ obs.ok /\ obs.id = "d1" /\ obs.prev # ""
    /\ EntryCount(documents_fts, "d1") = 1
    /\ \E r \in RunIds : /\ runs[r].pc = "lock"
                         /\ runs[r].docs[runs[r].i].id = "d1"

\* the tokens of the title and the content of the last call
NewTerms == TermsOf(obs.title) \cup TermsOf(obs.content)

\* the one row of the id of the last call holds the title and content of the call
ExactEntry ==
    /\ EntriesOf(documents_fts, obs.id) = {Entry(obs.id, obs.title, obs.content)}
    /\ EntryCount(documents_fts, obs.id) = 1

\* C3 as stated: when index_document(id, title, content) has returned Ok,
\* the row of id holds exactly that title and content, a term that occurred
\* only in the text indexed before no longer matches id, and every term of
\* the new text matches id.
C3_AsStated ==
    (obs.op = "index" /\ obs.ok) =>
        /\ ExactEntry
        /\ \A term \in TermsOf(obs.prev) \ NewTerms :
             obs.id \notin SearchIds(documents_fts, term)
        /\ \A term \in NewTerms : obs.id \in SearchIds(documents_fts, term)

\* C3: when index_document(id, title, content) has returned Ok, the one row
\* of id holds exactly that title and that content.  A term of the old text
\* alone no longer matches id unless a term of the new text starts with it,
\* and every term of the new text that is not one of the words the query
\* sanitizer drops (and, or, not, near) matches id.
C3_IndexReplaces ==
    (obs.op = "index" /\ obs.ok) =>
        /\ ExactEntry
        /\ \A term \in TermsOf(obs.prev) \ NewTerms :
             (\A token \in NewTerms : ~IsPrefix(term, token))
                 => obs.id \notin SearchIds(documents_fts, term)
        /\ \A term \in NewTerms \ OperatorWords :
             obs.id \in SearchIds(documents_fts, term)

\* the call replaced a row with other content
C3_Witness ==
    /\ obs.op = "index" /\ obs.ok
    /\ obs.prev # "" /\ obs.prev # obs.content
    /\ \E term \in TermsOf(obs.prev) \ NewTerms : \A token \in NewTerms : ~IsPrefix(term, token)

\* C4: when remove_document_index(id) has returned Ok there is no row of id
\* and no search returns id, until a step that indexes id again; the call
\* fails only when the database fails the statement, whether or not a row
\* existed; the rows of every other document id are left as they were.
C4_RemoveDeletes ==
    /\ []((obs.op = "remove" /\ obs.ok) =>
            /\ EntryCount(documents_fts, obs.id) = 0
            /\ \A term \in Terms : obs.id \notin SearchIds(documents_fts, term))
    /\ [][/\ obs'.op = "remove" =>
               /\ obs'.ok <=> obs'.fail = "none"
               /\ \A e \in BagToSet(documents_fts) \cup BagToSet(documents_fts') :
                    e.document_id # obs'.id =>
                        CopiesIn(e, documents_fts') = CopiesIn(e, documents_fts)
          /\ \A id \in DocIds :
               (EntryCount(documents_fts, id) = 0 /\ EntryCount(documents_fts', id) > 0)
                   => IndexingStep(id)]_vars

\* the row of d1 was removed while d2 had one
C4_Witness ==
    /\ obs.op = "remove" /\ obs.ok /\ obs.id = "d1" /\ obs.prev # ""
    /\ EntryCount(documents_fts, "d2") = 1

-----------------------------------------------------------------------------
(* Properties of backfill_corrections_from_dir *)

\* the lines the call had to import: importable lines of the files that
\* could be opened, whose INSERT did not fail
Effective ==
    { p \in Positions(logs) :
        /\ p[2] <= Len(logs[p[1]])
        /\ Importable(logs[p[1]][p[2]])
        /\ p[1] \notin bf.env.unreadable
        /\ p \notin bf.env.failing }

LineAt(p) == logs[p[1]][p[2]]

EffectiveOf(h) == { p \in Effective : LineAt(p).obj["highlight_id"] = h }

\* p comes before q: lower file name, or the same file and an earlier line
Before(p, q) == p[1] < q[1] \/ (p[1] = q[1] /\ p[2] <= q[2])

LastOf(ps) == CHOOSE p \in ps : \A q \in ps : Before(q, p)

RowsOf(h) == { r \in corrections.rows : r.highlight_id = h }

\* C7: files are taken in ascending file name order and lines in file order,
\* so a highlight_id met in several lines ends as exactly one row whose
\* original text, notes, document title, highlight colour and updated_at are
\* those of the line that comes last in that order.
C7_LastLineWins ==
    bf.called =>
        \A h \in HighlightIds :
            EffectiveOf(h) # {} =>
                LET o == LineAt(LastOf(EffectiveOf(h))).obj IN
                /\ Cardinality(RowsOf(h)) = 1
                /\ \A r \in RowsOf(h) :
                     /\ r.original_text = JsonOr(o, "original_text", "")
                     /\ r.notes_json = JsonNotes(o)
                     /\ r.document_title = JsonOr(o, "document_title", NULL)
                     /\ r.highlight_color = JsonOr(o, "highlight_color", "yellow")
                     /\ r.updated_at = JsonOr(o, "exported_at", 0)

\* the same highlight_id in both files, with different content
C7_Witness ==
    /\ bf.called
    /\ \E p, q \in EffectiveOf("h1") :
         /\ p[1] < q[1]
         /\ LineAt(p).obj # LineAt(q).obj
         /\ "original_text" \in DOMAIN LineAt(p).obj
         /\ "original_text" \in DOMAIN LineAt(q).obj

\* C8: a blank line, a line that is not JSON, a line without highlight_id, a
\* file that cannot be opened or a failed upsert never ends the call: every
\* other valid line of every readable file is upserted, and the count
\* returned is the number of upserts that succeeded.
C8_BadInputSkipped ==
    (bf.called /\ dirExists) =>
        /\ ~bf.error
        /\ bf.imported = Cardinality(Effective)
        /\ \A p \in Effective : RowsOf(LineAt(p).obj["highlight_id"]) # {}

\* a failed upsert and a malformed line, each followed by a valid line
C8_Witness ==
    /\ bf.called
    /\ \E p \in bf.env.failing : \E q \in Effective : Before(p, q) /\ p[1] = q[1]
                                  /\ LineAt(q).obj["highlight_id"] = "h2"
    /\ \E f \in FileNames : \E i \in 1..Len(logs[f]) :
         /\ ~Importable(logs[f][i])
         /\ \E q \in Effective : q[1] = f /\ q[2] > i

\* C9: on a directory that does not exist the call returns 0, raises no
\* error and leaves the corrections table as it was.
C9_MissingDirectory ==
    (bf.called /\ ~dirExists) =>
        /\ bf.imported = 0
        /\ ~bf.error
        /\ corrections.rows = bf.before

C9_Witness ==
    /\ bf.called
    /\ ~dirExists
    /\ bf.before # {}

-----------------------------------------------------------------------------
(* Properties of the startup migrations *)

\* the corrections table the database file holds
DurableCorrections == Durable(corrections, saved.corrections)

\* C5: the rebuild of the corrections table is all-or-nothing.  While it runs
\* and after it failed the database holds the original table with all its
\* rows; when it committed, the table named corrections holds exactly the
\* rows of the old one.  The database never holds a state in which the old
\* table is gone and one of its rows is missing from corrections.
C5_RebuildAtomic ==
    /\ hist.rebuild = "running" => DurableCorrections = hist.original
    /\ hist.rebuild = "failed" => corrections = hist.original
    /\ (hist.rebuild = "done" /\ app = "backfill") =>
          /\ corrections.exists
          /\ ~HasFks(corrections)
          /\ corrections.rows = hist.original.rows
          /\ ~corrections_new.exists

\* a rebuild of a table with rows was interrupted after the old table was dropped
C5_Witness ==
    /\ hist.rebuild = "running"
    /\ app \in {"rename", "commit"}
    /\ Cardinality(hist.original.rows) = 2

\* a step of init_db that belongs to a migration (not the backfill)
MigrationStep == app \in {"down", "error", "drop_fks", "add_writing_type",
                          "add_access_count", "add_indexed_at"}

\* C6: on a database that is already migrated the startup migrations return
\* no error, alter no table and change no row; over any number of startups
\* each migration is applied at most once, and exactly once when the
\* application is up.
C6_MigrationsIdempotent ==
    /\ [](/\ hist.applied.fks <= 1 /\ hist.applied.wt <= 1
          /\ hist.applied.ac <= 1 /\ hist.applied.ia <= 1
          /\ app = "up" => /\ Migrated(corrections, documents)
                           /\ hist.applied.wt = 1
                           /\ hist.applied.ac = 1
                           /\ hist.applied.ia = 1)
    /\ [][(Migrated(corrections, documents) /\ MigrationStep) =>
            /\ corrections' = corrections
            /\ documents' = documents
            /\ corrections_new' = corrections_new
            /\ app' # "error"
            /\ app' \notin {"create_new", "copy", "drop_old", "rename", "commit"}]_vars

\* a second startup on a migrated database came up
C6_Witness ==
    /\ hist.again
    /\ app = "up"
    /\ hist.startups = 2
    /\ hist.applied.fks = 1

-----------------------------------------------------------------------------
(* Properties of the corrections table over the lifetime of a database *)

\* C1: the backfill import is performed in at most one startup of a
\* database: the first startup that imports leaves the sentinel, and every
\* later startup skips the import.
C1_BackfillAtMostOnce == hist.importRuns <= 1

\* C10: the corrections table holds at most one row per highlight_id, and
\* when persist_corrections or the backfill meets a highlight_id that has a
\* row, that row is updated in place: it keeps its id and its created_at.
C10_OneRowPerHighlight ==
    /\ [](\A r1, r2 \in corrections.rows :
             r1.highlight_id = r2.highlight_id => r1 = r2)
    /\ [][\A r \in corrections.rows : \A r2 \in corrections'.rows :
             r2.highlight_id = r.highlight_id =>
                 r2.id = r.id /\ r2.created_at = r.created_at]_vars

\* a row persisted twice and then overwritten by the backfill of an older line
C10_Witness ==
    \E r \in corrections.rows :
        /\ r.highlight_id = "h1"
        /\ r.session_id = SessionNames[2]
        /\ r.updated_at = 1
        /\ r.original_text = "bad text"
        /\ r.created_at = 1

\* C11: when persist_corrections upserts a highlight_id that has a row, a
\* null writing_type in the input leaves the stored writing_type as it was
\* and a non-null one replaces it; and no step of any kind turns the non-null
\* writing_type of a row into null.
C11_WritingTypeSticky ==
    /\ [][\A batch \in Batches, date \in PersistDates, logOk \in BOOLEAN :
            PersistCall(batch, date, logOk) =>
                \A i \in 1..Len(batch) : \A r \in corrections.rows :
                    r.highlight_id = batch[i].highlight_id =>
                        \E r2 \in corrections'.rows :
                            /\ r2.highlight_id = r.highlight_id
                            /\ r2.writing_type =
                                 IF batch[i].writing_type = NULL THEN r.writing_type
                                 ELSE batch[i].writing_type]_vars
    /\ [][\A r \in corrections.rows : \A r2 \in corrections'.rows :
            (r2.highlight_id = r.highlight_id /\ r.writing_type # NULL)
                => r2.writing_type # NULL]_vars

\* a row with a writing_type was upserted again with an input without one
C11_Witness ==
    \E r \in corrections.rows :
        /\ r.highlight_id = "h1"
        /\ r.writing_type = "email"
        /\ r.session_id = SessionNames[2]
        /\ r.original_text = "bad text"

\* C12: once the sentinel row of the backfill is in the corrections table, no
\* normal read returns it or counts it: it is not among the rows of
\* get_all_corrections, get_corrections_count is the number of the other rows,
\* and it is neither among the rows of get_corrections_by_document nor among
\* the exported rows.
C12_SentinelHidden ==
    \A s \in corrections.rows : s.session_id = Backfilled =>
        /\ s \notin FetchCorrections(corrections.rows, AllLimit)
        /\ CountCorrections(corrections.rows) = Cardinality({ r \in corrections.rows : r.session_id # Backfilled })
        /\ s \notin FetchCorrectionsByDocument(corrections.rows, ByDocumentLimit)
        /\ s \notin Exported(corrections.rows)

\* C13: a call of index_all_documents holds the connection lock only while it
\* reads the document list and, for one document at a time, while it writes
\* that document's entry and indexed_at; it does not hold it while it takes
\* the time, reads a file's metadata or content, or waits for the lock, so
\* that another command gets the lock while the call is at a file.
C13_NoLockDuringFileIO ==
    \A r \in RunIds :
        /\ runs[r].pc \in {"idle", "now", "stat", "read", "lock", "done"} => lock # r
        /\ lock = r => runs[r].pc \in {"snapshot", "write"}
C13_Witness ==
    \E r \in RunIds :
        /\ runs[r].pc = "read"
        /\ runs[r].i = 2
        /\ runs[r].indexed = 1
        /\ obs.op = "index"
        /\ obs.ok

-----------------------------------------------------------------------------
(* Properties of queries *)

\* AND, OR, NOT, NEAR in some of their spellings
OperatorSpellings ==
    {<<"O", "R">>, <<"o", "r">>, <<"o", "R">>, <<"A", "N", "D">>, <<"a", "n", "d">>,
     <<"N", "o", "t">>, <<"N", "E", "A", "R">>, <<"n", "E", "a", "R">>}

\* the places of a query where a term can be added: its ends and next to
\* a whitespace character
TermPlaces(q) ==
    { k \in 0..Len(q) : k = 0 \/ k = Len(q) \/ q[k] \in Whitespace \/ q[k + 1] \in Whitespace }

AddTerm(q, k, word) == SubSeq(q, 1, k) \o <<" ">> \o word \o <<" ">> \o SubSeq(q, k + 1, Len(q))

\* C18: a whitespace-separated term that is AND, OR, NOT or NEAR in any letter
\* case adds nothing to the expression of sanitize_fts_query: the query with
\* such a term added at any place has the expression of the query without it.
C18_OperatorsDropped ==
    obs.op = "sanitized" =>
        \A word \in OperatorSpellings : \A k \in TermPlaces(obs.query) :
            SanitizeFtsQuery(AddTerm(obs.query, k, word)) = obs.expr
C18_Witness ==
    /\ obs.op = "sanitized"
    /\ obs.query = <<"c", "a", "t", " ", "O", "R">>
    /\ obs.expr = <<"\"", "c", "a", "t", "\"", "*">>
    /\ SanitizeFtsQuery(<<"c", "a", "t">>) = obs.expr

\* the whitespace-separated terms of q are operator keywords or have no
\* alphanumeric character
OnlyNoise(q) ==
    \A k \in 1..Len(SplitWhitespace(q)) :
        IsOperator(SplitWhitespace(q)[k]) \/ ~HasAlphanumeric(SplitWhitespace(q)[k])

\* expr is empty or a list of quoted prefix terms of alphanumerics, '-', '_'
WellFormedExpr(expr) ==
    /\ expr = JoinSpace([k \in 1..Len(ExprPhrases(expr)) |->
                           <<"\"">> \o ExprPhrases(expr)[k] \o <<"\"", "*">>])
    /\ \A k \in 1..Len(ExprPhrases(expr)) :
         /\ HasAlphanumeric(ExprPhrases(expr)[k])
         /\ \A j \in 1..Len(ExprPhrases(expr)[k]) :
              IsAlphanumeric(ExprPhrases(expr)[k][j]) \/ ExprPhrases(expr)[k][j] \in {"-", "_"}

C20_AtMostLimitRows ==
    (obs.op = "search" /\ obs.ok) =>
        obs.count <= (IF obs.limit < 0 THEN 0 ELSE obs.limit)

-----------------------------------------------------------------------------
(* Properties of the connection lock *)

\* the index_all_documents calls that are inside one of their two locked blocks
Holders == { r \in DOMAIN runs : runs[r].pc \in {"snapshot", "write"} }

\* C14: at most one command holds the connection at a time, and the search
\* commands touch the database only while they hold it: no two
\* index_all_documents calls are inside a locked block together; the call
\* inside one is the owner of the lock; index_document, remove_document_index
\* and a search_documents that queries the index run only while no other call
\* holds the lock; index_all_documents reads the document list only as the
\* owner; and whenever the index or the documents table changes, the command
\* changing it holds the lock.
C14_OneHolder ==
    /\ [](/\ Cardinality(Holders) <= 1
          /\ \A r \in Holders : lock = r
          /\ lock # "free" => lock \in Holders)
    /\ [][obs'.locked => (Holders = {} /\ lock = "free")]_vars
    /\ [][\A r \in DOMAIN runs :
            (runs[r].pc = "snapshot" /\ runs'[r].pc # "snapshot") => lock = r]_vars
    /\ [][(documents_fts' # documents_fts \/ documents' # documents) =>
            \/ obs'.locked /\ Holders = {}
            \/ \E r \in Holders :
                 /\ lock = r
                 /\ runs[r].pc = "write"
                 /\ \A q \in DOMAIN runs \ {r} : runs'[q] = runs[q]]_vars
C14_Witness ==
    /\ runs["r1"].pc = "write"
    /\ runs["r2"].pc = "lock"
    /\ lock = "r1"
    /\ BagCardinality(documents_fts) = 1

\* C17: a search_documents call with an empty or whitespace-only query returns
\* Ok with no rows, does not take the connection lock (it returns while
\* another call holds it) and leaves the index, the tables and the lock as
\* they are.
C17_BlankQueryNoLock ==
    [][(obs'.op = "search" /\ Trim(obs'.query) = <<>>) =>
          /\ ~obs'.locked
          /\ obs'.ok
          /\ obs'.count = 0
          /\ UNCHANGED <<dbVars, documents, clock, documents_fts, fsys, lock, runs>>]_vars
C17_Witness ==
    /\ obs.op = "search"
    /\ obs.query = <<" ", "\t">>
    /\ obs.ok
    /\ lock = "r1"
    /\ runs["r1"].pc = "write"

-----------------------------------------------------------------------------
(* Properties of index_all_documents *)

\* the row of the documents table with this id
DocumentRow(id) == CHOOSE d \in documents.rows : d.id = id

\* C15: when index_all_documents comes to a document whose file is missing it
\* moves on without reading it, and whenever it moves on from the metadata of
\* a file (missing, or metadata not readable) it counts the document as
\* skipped and not as an error or as indexed, writes neither the index nor the
\* documents table, and goes on with the next document of its list, or
\* returns when there is none.
C15_MissingFileSkipped ==
    [][\A r \in RunIds :
         (runs[r].pc = "stat" /\ runs'[r] # runs[r]) =>
             LET run == runs[r]
                 d == run.docs[run.i]
             IN /\ ~fsys[d.file_path].exists => runs'[r].i = run.i + 1
                /\ runs'[r].i = run.i + 1 =>
                      /\ runs'[r].skipped = run.skipped + 1
                      /\ runs'[r].errors = run.errors
                      /\ runs'[r].indexed = run.indexed
                      /\ documents_fts' = documents_fts
                      /\ documents' = documents
                      /\ runs'[r].docs = run.docs
                      /\ runs'[r].pc = IF run.i < Len(run.docs) THEN "stat" ELSE "done"]_vars
C15_Witness ==
    \E r \in RunIds :
        /\ runs[r].pc = "done"
        /\ runs[r].skipped = 2
        /\ runs[r].errors = 0
        /\ runs[r].indexed = 0
        /\ ~fsys["/b.md"].exists
        /\ \A d \in documents.rows : d.indexed_at = NoTime

\* C16: when index_all_documents comes to a document that has an indexed_at
\* and whose file exists with a modification time not later than it, the
\* document is counted as skipped, its file is not read, and neither the index
\* nor the documents table is written.
C16_UnchangedFileSkipped ==
    [][\A r \in RunIds :
         (runs[r].pc = "stat" /\ runs'[r] # runs[r]) =>
             LET run == runs[r]
                 d == run.docs[run.i]
                 f == fsys[d.file_path]
                 ia == DocumentRow(d.id).indexed_at
             IN (f.exists /\ ia # NoTime /\ f.mtime <= ia) =>
                    /\ runs'[r].skipped = run.skipped + 1
                    /\ runs'[r].indexed = run.indexed
                    /\ runs'[r].errors = run.errors
                    /\ runs'[r].i = run.i + 1
                    /\ runs'[r].pc # "read"
                    /\ documents_fts' = documents_fts
                    /\ documents' = documents]_vars
C16_Witness ==
    \E r \in RunIds :
        /\ runs[r].pc = "stat"
        /\ runs[r].i = 2
        /\ runs[r].skipped = 1
        /\ fsys["/a.md"].exists
        /\ DocumentRow("d1").indexed_at = 0
        /\ fsys["/a.md"].mtime = 0
        /\ EntriesOf(documents_fts, "d1") # {}

-----------------------------------------------------------------------------
(* Properties of the ranking *)

\* the index entry of a document
EntryOf(id) == CHOOSE e \in EntriesOf(documents_fts, id) : TRUE

\* a and b are rows of two documents found with the same lexical rank
SameRelevance(a, b) ==
    /\ a.id # b.id
    /\ EntriesOf(documents_fts, a.id) # {}
    /\ EntriesOf(documents_fts, b.id) # {}
    /\ Bm25(EntryOf(a.id), obs.expr) = Bm25(EntryOf(b.id), obs.expr)

Searched == obs.op = "search" /\ obs.ok /\ obs.expr # <<>>

C22_FrequentFirst ==
    Searched =>
        \A a \in documents.rows : \A b \in documents.rows :
            (/\ SameRelevance(a, b)
             /\ a.last_opened_at = b.last_opened_at
             /\ a.access_count > b.access_count)
                => <<a.id, b.id>> \in obs.above
C22_Witness ==
    /\ Searched
    /\ \E a \in documents.rows : \E b \in documents.rows :
         /\ a.access_count = 50 /\ b.access_count = 1
         /\ a.last_opened_at = clock /\ b.last_opened_at = clock
         /\ <<a.id, b.id>> \in obs.above

\* C23: a document opened 730 days ago with access_count 100 has a smaller
\* bonus than one opened now with access_count 3, and found with the same
\* lexical rank it ranks below it.
C23_DecayDominates ==
    Searched =>
        \A a \in documents.rows : \A b \in documents.rows :
            (/\ SameRelevance(a, b)
             /\ a.access_count = 3 /\ a.last_opened_at = clock
             /\ b.access_count = 100 /\ b.last_opened_at = clock - TwoYears)
                => /\ BonusNum(b.access_count) * BonusDen(DaysSince(clock, a.last_opened_at))
                        < BonusNum(a.access_count) * BonusDen(DaysSince(clock, b.last_opened_at))
                   /\ <<a.id, b.id>> \in obs.above
C23_Witness ==
    /\ Searched
    /\ \E a \in documents.rows : \E b \in documents.rows :
         /\ a.access_count = 3 /\ b.access_count = 100
         /\ a.last_opened_at = clock /\ b.last_opened_at = clock - TwoYears
         /\ <<a.id, b.id>> \in obs.above
         /\ <<b.id, a.id>> \notin obs.above

-----------------------------------------------------------------------------
(* Properties of the access count *)

\* C24: an index_document call whose replace of the index entry succeeded
\* returns Ok and leaves exactly the new entry for the id, also when the
\* UPDATE of access_count fails and when the id has no row in the documents
\* table; in these two cases the documents table is left as it was.
C24_BumpBestEffort ==
    [][(obs'.op = "index" /\ obs'.fail \in {"none", "bump"}) =>
          /\ obs'.ok
          /\ EntriesOf(documents_fts', obs'.id) = {Entry(obs'.id, obs'.title, obs'.content)}
          /\ EntryCount(documents_fts', obs'.id) = 1
          /\ (obs'.fail = "bump" \/ ~\E d \in documents.rows : d.id = obs'.id)
                => documents' = documents]_vars
C24_Witness ==
    /\ obs.op = "index"
    /\ obs.fail = "bump"
    /\ obs.ok
    /\ obs.id = "d1"
    /\ EntriesOf(documents_fts, "d1") = {Entry("d1", obs.title, obs.content)}
    /\ \A d \in documents.rows : d.access_count = 0

\* the rows of the documents table with the given id
DocumentRows(rows, id) == { d \in rows : d.id = id }

\* C25 as stated: every index_document call that returns Ok for a document
\* that has a row adds exactly 1 to the access_count of the row.
C25_AsStated ==
    [][(obs'.op = "index" /\ obs'.ok) =>
          \A d \in DocumentRows(documents.rows, obs'.id) :
              \A e \in DocumentRows(documents'.rows, obs'.id) :
                  e.access_count = d.access_count + 1]_vars

\* C25: no step of upsert_document, index_document, index_all_documents,
\* rename_file or init_db removes a row or lowers its access_count; an
\* index_document call that returns Ok and whose UPDATE of access_count
\* succeeded adds exactly 1 to the access_count of the row with the id, and one
\* whose UPDATE failed leaves it as it was.
C25_Monotonic ==
    [][/\ \A d \in documents.rows :
            /\ DocumentRows(documents'.rows, d.id) # {}
            /\ \A e \in DocumentRows(documents'.rows, d.id) : e.access_count >= d.access_count
       /\ (obs'.op = "index" /\ obs'.ok /\ obs'.fail = "none") =>
              \A d \in DocumentRows(documents.rows, obs'.id) :
                  \A e \in DocumentRows(documents'.rows, obs'.id) :
                      e.access_count = d.access_count + 1
       /\ (obs'.op = "index" /\ obs'.fail = "bump") =>
              documents'.rows = documents.rows]_vars

\* the document was indexed by the command and by a reindex run, migrated a
\* second time and then upserted, and still has its count
C25_Witness ==
    /\ obs.op = "upsert" /\ obs.ok
    /\ hist.startups = MaxStartups
    /\ \E d \in DocumentRows(documents.rows, obs.id) :
         /\ d.access_count = MaxAccess
         /\ d.indexed_at # NoTime

-----------------------------------------------------------------------------
(* Properties of the documents table *)

\* no two rows with the same non-null file_path or keep_local_id
UniqueDocuments(rows) ==
    \A d \in rows, e \in rows :
        /\ (d.file_path # NULL /\ d.file_path = e.file_path) => d = e
        /\ (d.keep_local_id # NULL /\ d.keep_local_id = e.keep_local_id) => d = e

\* the rows an upserted document matches: by file path, or by keep_local id
\* when it has no file path
MatchedRows(rows, doc) ==
    { m \in rows :
        \/ doc.file_path # NULL /\ m.file_path = doc.file_path
        \/ doc.file_path = NULL /\ doc.keep_local_id # NULL
              /\ m.keep_local_id = doc.keep_local_id }

\* C26: in every state no two rows of the documents table have the same
\* non-null file_path or the same non-null keep_local_id; an upsert_document
\* call for a document that matches a row by file path, or by keep_local id
\* when it has no file path, adds no row and, when it returns Ok, returns the
\* id of the matched row and has written the document into that row.
C26_OnePerPath ==
    /\ []UniqueDocuments(documents.rows)
    /\ [][\A doc \in DocInputs, fail \in BOOLEAN :
              (UpsertCall(doc, fail) /\ MatchedRows(documents.rows, doc) # {}) =>
                  /\ { d.id : d \in documents'.rows } = { d.id : d \in documents.rows }
                  /\ Cardinality(documents'.rows) = Cardinality(documents.rows)
                  /\ obs'.ok =>
                        /\ \A m \in MatchedRows(documents.rows, doc) : obs'.id = m.id
                        /\ \E d \in documents'.rows :
                              /\ d.id = obs'.id
                              /\ d.file_path = doc.file_path
                              /\ d.keep_local_id = doc.keep_local_id]_vars

\* an upsert without an id of its own returned the id of the first document
\* while the table holds another document as well
C26_Witness ==
    /\ obs.op = "upsert" /\ obs.ok /\ obs.id = "d1"
    /\ Cardinality(documents.rows) >= 2
    /\ \E d \in documents.rows : d.id = "d1" /\ d.keep_local_id = "k1"

-----------------------------------------------------------------------------
(* Properties of the startup backfill *)

\* C27: when a startup has run backfill_corrections_from_dir, the corrections
\* table holds a row with session_id '__backfilled__' if and only if the call
\* imported at least one record.
C27_SentinelIffImported ==
    [][(app = "backfill" /\ app' # "backfill" /\ hist'.ran) =>
          (SentinelPresent(corrections'.rows) <=> hist'.imported > 0)]_vars

-----------------------------------------------------------------------------
(* Properties of a reindex run past the metadata of a file *)

\* the run goes on with the next document of its list, or to its return
GoesOn(run, next) ==
    /\ next.i = run.i + 1
    /\ next.docs = run.docs
    /\ next.pc = IF run.i < Len(run.docs) THEN "stat" ELSE "done"

\* what a run does with a document it reads; atWrite: the stamp is the time
\* of the write, otherwise the time the run took before its loop
Reindexed(atWrite) ==
    \A r \in RunIds :
        LET run == runs[r]
            next == runs'[r]
            d == run.docs[run.i]
            f == fsys[d.file_path]
        IN /\ (run.pc = "stat" /\ next.pc = "read") =>
                 /\ f.exists
                 /\ d.indexed_at = NoTime \/ f.mtime > d.indexed_at
           /\ (run.pc = "read" /\ next # run) =>
                 /\ documents_fts' = documents_fts
                 /\ documents' = documents
                 /\ \/ /\ f.exists
                       /\ next = [run EXCEPT !.pc = "lock", !.content = f.content]
                    \/ /\ GoesOn(run, next)
                       /\ next.errors = run.errors + 1
                       /\ next.indexed = run.indexed
                       /\ next.skipped = run.skipped
           /\ (run.pc = "write" /\ next # run) =>
                 /\ GoesOn(run, next)
                 /\ next.skipped = run.skipped
                 /\ \/ /\ next.indexed = run.indexed + 1
                       /\ next.errors = run.errors
                       /\ EntriesOf(documents_fts', d.id) = {Entry(d.id, DocTitle(d), run.content)}
                       /\ EntryCount(documents_fts', d.id) = 1
                       /\ \A x \in documents'.rows : x.id = d.id => x.indexed_at = (IF atWrite THEN clock ELSE run.now_ms)
                       /\ \A x \in documents.rows : x.id # d.id => x \in documents'.rows
                    \/ /\ next.errors = run.errors + 1
                       /\ next.indexed = run.indexed
                       /\ documents' = documents
                       /\ EntriesOf(documents_fts', d.id) \subseteq EntriesOf(documents_fts, d.id)

-----------------------------------------------------------------------------
(* Properties of one reindex run after the other *)

\* a run has come to its end after an earlier run returned
SecondRunDone(r) == runs[r].pc = "done" /\ runs[r].last.docs # <<>>

\* the run at its end has skipped every document the run before it indexed
\* or skipped as unchanged, and has indexed none of them
SkippedAgain(r) ==
    LET run == runs[r] IN
    \A k \in DOMAIN run.last.docs :
        run.last.outcomes[k] \in {"indexed", "unchanged"} =>
            \A j \in DOMAIN run.docs :
                run.docs[j].id = run.last.docs[k].id =>
                    run.outcomes[j] \in {"unchanged", "missing"}

-----------------------------------------------------------------------------
(* Properties of a reindex run as a whole *)

\* the documents counted so far are the documents the loop is through with
CountedOnce(run) ==
    /\ run.indexed + run.skipped + run.errors = run.i - 1
    /\ run.i - 1 <= Len(run.docs)

-----------------------------------------------------------------------------
(* Properties of the expression of a query *)

\* q with the character c put in after its first k characters
InsertChar(q, k, c) == SubSeq(q, 1, k) \o <<c>> \o SubSeq(q, k + 1, Len(q))

\* the characters a term may hold between its quotes
TermChar(c) == IsAlphanumeric(c) \/ c = "-" \/ c = "_"

\* term is "w"* with w not empty, of alphanumerics, '-' and '_', one of them
\* an alphanumeric
ShapedTerm(term) ==
    /\ Len(term) >= 4
    /\ term[1] = "\""
    /\ term[Len(term) - 1] = "\""
    /\ term[Len(term)] = "*"
    /\ \A j \in 2..(Len(term) - 2) :
          /\ TermChar(term[j])
          /\ term[j] \notin SpecialChars \cup Whitespace
    /\ \E j \in 2..(Len(term) - 2) : IsAlphanumeric(term[j])

\* expr is empty, or terms with exactly one space between two of them and
\* none before the first and after the last
ShapedExpr(expr) ==
    \/ expr = <<>>
    \/ /\ expr[1] # " " /\ expr[Len(expr)] # " "
       /\ \A k \in 1..(Len(expr) - 1) : ~(expr[k] = " " /\ expr[k + 1] = " ")
       /\ \A k \in 1..Len(SplitOn(expr, {" "})) : ShapedTerm(SplitOn(expr, {" "})[k])

\* C31: the expression sanitize_fts_query returns for a query, and for the
\* query with a quote, parenthesis, brace, colon, caret or whitespace character
\* put in at any place, is empty or a list of terms "w"* with exactly one space
\* between two terms, where w is not empty, holds an alphanumeric character,
\* and holds nothing but alphanumeric characters, '-' and '_'.
C31_ExpressionShape ==
    obs.op = "sanitized" =>
        /\ ShapedExpr(obs.expr)
        /\ \A c \in SpecialChars \cup Whitespace : \A k \in 0..Len(obs.query) :
              ShapedExpr(SanitizeFtsQuery(InsertChar(obs.query, k, c)))

\* a query with a quote and a hyphen gives one term, and two terms when a tab
\* is put into it
C31_Witness ==
    /\ obs.op = "sanitized"
    /\ obs.query = <<"c", "a", "t", "\"", "-">>
    /\ obs.expr = <<"\"", "c", "a", "t", "-", "\"", "*">>
    /\ SanitizeFtsQuery(InsertChar(obs.query, 1, "\t"))
          = <<"\"", "c", "\"", "*", " ", "\"", "a", "t", "-", "\"", "*">>

-----------------------------------------------------------------------------
(* Properties of the export *)

\* C32: an export_corrections_json call that fails before or while it writes
\* the export file deletes no row; a call deletes rows only when the file it
\* wrote holds every row whose session_id is not '__backfilled__'; a call that
\* returns Ok has deleted exactly these rows and returns their number, and a
\* call that returns Err has deleted nothing.
C32_ClearAfterExport ==
    [][(obs'.op = "export" /\ obs' # obs) =>
          /\ obs'.fail \in {"build", "mkdir", "write"} =>
                 /\ corrections' = corrections
                 /\ obs'.exported = {}
                 /\ ~obs'.ok
          /\ corrections'.rows # corrections.rows =>
                 obs'.exported = { r \in corrections.rows : r.session_id # Backfilled }
          /\ obs'.ok =>
                 /\ corrections.rows \ corrections'.rows =
                       { r \in corrections.rows : r.session_id # Backfilled }
                 /\ corrections'.rows \subseteq corrections.rows
                 /\ obs'.exported = corrections.rows \ corrections'.rows
                 /\ obs'.count = Cardinality(obs'.exported)
          /\ ~obs'.ok => corrections' = corrections]_vars

\* an export returned 1 and left nothing but the sentinel row
C32_Witness ==
    /\ obs.op = "export" /\ obs.ok /\ obs.count = 1
    /\ Cardinality(obs.exported) = 1
    /\ corrections.rows = {SentinelRow}

-----------------------------------------------------------------------------
(* Properties of the sentinel row *)

\* C33: a corrections table that holds a row with session_id '__backfilled__'
\* holds one after every step of a startup and of every command.
C33_SentinelStays ==
    [][SentinelPresent(corrections.rows) => SentinelPresent(corrections'.rows)]_vars



\* the highlight ids of the lines persist_corrections appended to the log
LoggedHids ==
    { logs[d][i].obj.highlight_id : <<d, i>> \in
        { <<d, i>> \in PersistDates \X (1..MaxClock) : i <= Len(logs[d]) } }

\* corrections persist_corrections wrote and a later command took out of the table
RemovedCorrections ==
    { h \in HighlightIds \cap LoggedHids :
        \A r \in corrections.rows : r.highlight_id # h }

\* C34: the backfill of a startup leaves a correction the user removed out
\* of the table: a highlight id that persist_corrections logged and that has no
\* row when the backfill starts has no row when it ends.
C34_RemovedStaysRemoved ==
    [][app = "backfill" /\ app' # "backfill"
         => \A h \in RemovedCorrections :
              \A r \in corrections'.rows : r.highlight_id # h]_vars


-----------------------------------------------------------------------------
(* Properties of the skip of an unchanged file *)

\* C35: when index_all_documents skips a document whose file has a
\* modification time not newer than its indexed_at, every index entry of the
\* document holds the content the file has at that moment.
C35_SkipNeverStale ==
    [][\A r \in RunIds :
          LET run == runs[r]
              d == run.docs[run.i]
          IN (run.pc = "stat" /\ run.journal /\ runs'[r] = SkipUnchanged(run)) =>
                \A e \in EntriesOf(documents_fts, d.id) :
                    e.content = fsys[d.file_path].content]_vars


-----------------------------------------------------------------------------
(* Properties of a failed index_document *)

\* C36: an index_document call that returns Err leaves the index as it was:
\* the entries of its document id are the entries stored before the call.
C36_FailedIndexKeepsEntry ==
    [][(obs'.op = "index" /\ ~obs'.ok) => documents_fts' = documents_fts]_vars


-----------------------------------------------------------------------------
(* Properties of remove_document_index during a reindex run *)

\* C37: when an index_all_documents call has come to the end of its loop, a
\* document whose entry remove_document_index deleted after the call read its
\* list of documents has no index entry.
C37_RemovedStaysOut ==
    \A r \in RunIds :
        runs[r].pc = "done" =>
            \A id \in runs[r].removed : EntriesOf(documents_fts, id) = {}


-----------------------------------------------------------------------------
(* Properties of sanitize_fts_query applied to its own result *)

\* sanitize_fts_query returns q for the expression it returned for q
Idempotent(q) == SanitizeFtsQuery(SanitizeFtsQuery(q)) = SanitizeFtsQuery(q)

\* C38: sanitize_fts_query applied to the expression it returned for a query
\* returns that expression again, for the query and for the query with a '*',
\* a quote or a space put in at any place.
C38_SanitizeIdempotent ==
    obs.op = "sanitized" =>
        /\ SanitizeFtsQuery(obs.expr) = obs.expr
        /\ \A c \in {"*", "\"", " "} : \A k \in 0..Len(obs.query) :
              Idempotent(InsertChar(obs.query, k, c))

\* the query +OR gives the term "OR"*, which the second pass does not take
\* for an operator, and cat* gives "cat"* both times
C38_Witness ==
    /\ obs.op = "sanitized"
    /\ obs.query = <<"+", "O", "R">>
    /\ obs.expr = <<"\"", "O", "R", "\"", "*">>
    /\ SanitizeFtsQuery(obs.expr) = obs.expr
    /\ SanitizeFtsQuery(<<"c", "a", "t", "*">>) = <<"\"", "c", "a", "t", "\"", "*">>


-----------------------------------------------------------------------------
(* Properties of the bonus of the ranking *)

\* the bonus (3 * access_count) / (10 + days) of the entry of id is at least
\* 0 and at most 3 * access_count / 10, and its days are not negative
BonusBounded(rows, id, now) ==
    LET count == JoinedAccessCount(rows, id)
        days == DaysSince(now, JoinedLastOpened(rows, id))
    IN /\ days >= 0
       /\ BonusDen(days) >= BonusDen(0)
       /\ BonusNum(count) >= 0
       /\ BonusNum(count) * BonusDen(0) <= 3 * count * BonusDen(days)

\* the rows with the access_count of the row of id set to NULL
WithoutCount(rows, id) ==
    { IF d.id = id THEN [d EXCEPT !.access_count = NoCount] ELSE d : d \in rows }

====
